---- MODULE Spec2Model ----
(***************************************************************************)
(* A model of the geny backend: the sliding-window RateLimiter             *)
(* (backend/main.py), the CircuitBreaker and retry loop of the upstream    *)
(* gate (geny/gemini_api.py), the /chat handler (backend/main.py) with the *)
(* brain's reply generation (geny/geny_brain.py) and the interaction table *)
(* (memory.py), the writers of the world-state sequences, the background   *)
(* loops with their start and stop handlers (backend/main.py), the memory  *)
(* module's table operations (memory.py), the writers of the JSON memory   *)
(* file memory.json (memory.py, geny/geny_brain.py), the sections under    *)
(* brain._lock, _effective_interval (backend/main.py) and get_virtual_age  *)
(* (geny/geny_brain.py).                                                   *)
(*                                                                         *)
(* Time is a discrete clock `now`; durations of the code (window_seconds = *)
(* 3600, recovery_timeout = 30) and the caps of the sequences (1000, 500)  *)
(* are scaled down to a few units, the comparisons are kept as in the code.*)
(*                                                                         *)
(* Specifications: SpecRL (rate limiter), SpecGate (circuit breaker and    *)
(* _call_gemini under concurrent callers), SpecChat (the /chat handler),   *)
(* SpecWorld (writers of world.diary / world.feelings), SpecDoc (every     *)
(* mutator of brain.memory), FairGate (one call per task, fair scheduling),*)
(* SpecLoop (exploration and movement loops), SpecMem (memory module),     *)
(* SpecBlank (the /chat handler on blank messages), SpecStore (the writers *)
(* of memory.json and of the conversations table, step by step),           *)
(* SpecExplore (one task running _exploration_loop against the gate),      *)
(* SpecInterval (_effective_interval over bases and time scales), SpecAge  *)
(* (get_virtual_age over birthdates and instants), SpecLock and FairLock   *)
(* (the tasks that take brain._lock, free and fairly scheduled).           *)
(***************************************************************************)
EXTENDS Integers, Sequences, FiniteSets, TLC

VARIABLES
    now,        \* the wall clock, time.time()
    limit,      \* RateLimiter.limit (GENY_RL_LIMIT)
    hits,       \* RateLimiter._hits_by_key: scope -> deque of timestamps
    admitted,   \* history: scope -> times of the allow calls that returned True
    rlCalls,    \* history: number of allow/stats calls made so far
    lastAllow,  \* history: the last allow call (scope, its number among the calls, admitted-in-window before it, result)
    lastStats,  \* history: the last stats call (scope, time of the call, the dictionary returned)
    apiKey,     \* gemini_api.API_KEY is set
    circuit,    \* gemini_api._circuit: [state, fail_count, opened_at]
    gpc,        \* per task: where it is inside generate_reply / _call_gemini
    gattempt,   \* per task: the loop variable `attempt`
    gmax,       \* per task: the argument max_retries
    gresult,    \* per task: what the call returned
    ginvoked,   \* history, per task: upstream attempts started by the current call
    last_err,   \* per task: last_err of _call_gemini, by kind ("none" before any failure)
    gstart,     \* history, per task: breaker state and time since opening when the call started
    consec,     \* history: failures recorded since the last recorded success
    lastEvent,  \* history: the last change made to the breaker
    trial,      \* history: calls let through since the breaker went half-open, outcome pending
    gcalls,     \* history: number of generate calls started
    autoDiary,  \* main._auto_diary_enabled (GENY_AUTO_DIARY)
    chatpc,     \* per task: where its /chat request is
    cmsg,       \* per task: the kind of message of the request
    creply,     \* per task: the reply before it is coerced (None and "" included)
    cstore,     \* history, per task: whether save_interaction ran and whether the store failed
    resp,       \* per task: the HTTP response
    rows,       \* memory.db, table conversations: the number of rows
    crow,       \* history, per task: the rows inserted for its current request
    diary,      \* brain.memory["world"]["diary"]
    feelings,   \* brain.memory["world"]["feelings"]
    wseq,       \* history: number of world-state entries composed so far
    logged,     \* history: per sequence, every entry appended to it, in order
    wpc,        \* per task: where it is as a writer of the world state
    wentry,     \* per task: the entry it is about to append
    presence,   \* brain.memory["world"]["presence"]["ticks"]
    topkeys,    \* the other top-level keys of brain.memory: merges by /sync and by the import
    mut,        \* history: the last mutation of brain.memory, and whether brain._lock was held
    loop_state, \* per loop: _exploration_state / _movement_state
    loop_task,  \* per loop: _exploration_task / _movement_task, as an index into tasks (0: None)
    tasks,      \* per loop: the asyncio tasks created for it, in order: [pc, must_cancel,
                \* raised (history: its last iteration raised)]
    hpc,        \* per task: where its start or stop request is
    hreq,       \* per task: the start or stop request it handles
    hresp,      \* per task: the response of the handler, or the exception that leaves it
    hwait,      \* per task: the loop task its stop handler awaits
    lcalls,     \* history: number of start and stop requests so far
    conversations, \* memory.db, table conversations: its rows in id order
    json_doc,   \* memory.json: the list under "interactions"
    lastGet,    \* history: the last get_last_n call (n, rows of the table then, result)
    lastLoad,   \* history: the last save_memory_dict call (snapshot, table before and after,
                \* whether the call before it had the same snapshot)
    mcalls,     \* history: number of calls of the memory module so far
    memory,     \* brain.memory: its "interactions" list and the version of its "world"
    json_file,  \* memory.json beside json_doc: whether it holds a complete document, and
                \* the version of "world" in it (0: none)
    lock,       \* brain._lock is held
    spc,        \* where the task that runs on the event loop is in its synchronous section
    smsg,       \* the message of the /chat request being served
    sdata,      \* the local `data` of MemoryModule.save_interaction
    pending,    \* _async_save tasks created and not yet run by the event loop
    submitted,  \* save_memory calls handed to the executor and not yet started
    dumps,      \* temporary files written by save_memory threads and not yet renamed
    lastIO,     \* history: the last persistence event, and whether brain._lock was held then
    recorded,   \* history: the messages whose save_interaction returned with both writes done
    lastRec,    \* history: the last save_interaction call and what became of its two writes
    scalls,     \* history: number of operations on the store so far
    birthdate,  \* brain.memory["world"]["birthdate"] (NoBirth: the key is absent)
    scale,      \* brain.VIRTUAL_TIME_SCALE, in tenths
    lastInterval, \* history: the last _effective_interval call and the one before it
    lastAge     \* history: the last get_virtual_age call and the one before it

rlVars == <<limit, hits, admitted, rlCalls, lastAllow, lastStats>>
gateVars == <<apiKey, circuit, gpc, gattempt, gmax, gresult, ginvoked, last_err, gstart, consec,
              lastEvent, trial, gcalls>>

chatVars == <<autoDiary, chatpc, cmsg, creply, cstore, resp, rows, crow>>
worldVars == <<diary, feelings, wseq, logged, wpc, wentry, presence, topkeys, mut>>
dlog == <<diary, wseq, logged, mut>>

loopVars == <<loop_state, loop_task, tasks, hpc, hreq, hresp, hwait, lcalls>>
memVars == <<conversations, json_doc, lastGet, lastLoad, mcalls>>
storeVars == <<memory, json_file, lock, spc, smsg, sdata, pending, submitted, dumps, lastIO,
               recorded, lastRec, scalls>>
timeVars == <<scale, lastInterval, lastAge>>
otherVars == <<loopVars, memVars, storeVars, birthdate, timeVars>>
vars == <<now, rlVars, gateVars, chatVars, worldVars, otherVars>>

----------------------------------------------------------------------------
(* Bounds of the model *)

MaxTime == 4        \* the clock runs 0..MaxTime
MaxLimit == 2       \* limit is drawn from 0..MaxLimit
Window == 2         \* RateLimiter.window, in clock units (3600 s in the code)
MaxRLCalls == 4     \* allow/stats calls per behaviour
RecoveryTimeout == 1 \* CircuitBreaker.recovery_timeout, in clock units (30 s in the code)
MaxGateCalls == 3   \* generate calls per behaviour
ChatMaxTime == 1    \* the clock runs 0..ChatMaxTime while /chat is exercised
MaxAppends == 4     \* world-state entries per behaviour
MaxMemCalls == 3    \* calls of the memory module per behaviour
MemMaxTime == 1     \* the clock while the memory module is exercised
MaxN == 2           \* the largest n asked of get_last_n
MaxStoreCalls == 2  \* requests, ticks and exports on the store per behaviour
MaxLoopCalls == 3   \* start and stop requests per behaviour
MaxRuns == 1        \* iterations per start of a loop
MaxMutations == 2   \* presence ticks, /sync merges and imports per behaviour
DiaryCap == 3       \* the cap of world.diary (1000 in the code)
FeelingsCap == 2    \* the cap of world.feelings (500 in the code)

FailThreshold == 3  \* _circuit = CircuitBreaker(fail_threshold=3, ...)
MaxRetries == 3     \* the default of max_retries; a call passes 1 or the default

Procs == {"p1", "p2"}   \* the concurrent tasks (requests, callers of the gate)

Scopes == {"/chat", "/exploration/loop"}

----------------------------------------------------------------------------
(* RateLimiter, backend/main.py *)

RECURSIVE PruneOffByOne(_, _)
PruneOffByOne(dq, t) ==
    IF dq # <<>> /\ Head(dq) <= t - Window THEN PruneOffByOne(Tail(dq), t) ELSE dq

\* _prune: drop from the left every timestamp older than now - window
RECURSIVE prune(_, _)
prune(dq, t) ==
    IF dq # <<>> /\ Head(dq) < t - Window THEN prune(Tail(dq), t) ELSE dq

\* number of entries of a sequence of times that lie in [lo, hi]
CountIn(seq, lo, hi) ==
    Cardinality({i \in DOMAIN seq : lo <= seq[i] /\ seq[i] <= hi})

AdmitRecordsDenied(dq, t) ==
    IF limit <= 0
    THEN [ok |-> TRUE, dq |-> dq]
    ELSE LET q == prune(dq, t) IN
         [ok |-> Len(q) < limit, dq |-> Append(q, t)]

\* allow, on the deque of the scope: disabled when limit <= 0 (nothing is
\* recorded); else purge, then admit (append now) iff the count is below limit
Admit(dq, t) ==
    IF limit <= 0
    THEN [ok |-> TRUE, dq |-> dq]
    ELSE LET q == prune(dq, t) IN
         IF Len(q) >= limit
         THEN [ok |-> FALSE, dq |-> q]
         ELSE [ok |-> TRUE, dq |-> Append(q, t)]

\* allow(scope)
allow(scope) ==
    /\ rlCalls < MaxRLCalls
    /\ rlCalls' = rlCalls + 1
    /\ LET a == Admit(hits[scope], now) IN
       /\ hits' = [hits EXCEPT ![scope] = a.dq]
       /\ admitted' = IF a.ok THEN [admitted EXCEPT ![scope] = Append(@, now)] ELSE admitted
       /\ lastAllow' = [scope |-> scope, n |-> rlCalls + 1,
                        before |-> CountIn(admitted[scope], now - Window, now),
                        result |-> a.ok]

\* the dictionary stats(scope) returns, computed on the purged deque
StatsOf(dq, t) ==
    [limit |-> limit,
     count |-> Len(dq),
     window_seconds |-> Window,
     reset_in_seconds |-> IF dq = <<>> THEN 0
                          ELSE IF Window - (t - Head(dq)) > 0 THEN Window - (t - Head(dq)) ELSE 0]

\* stats(scope): purge, then report
stats(scope) ==
    /\ rlCalls < MaxRLCalls
    /\ rlCalls' = rlCalls + 1
    /\ LET dq == prune(hits[scope], now) IN
       /\ hits' = [hits EXCEPT ![scope] = dq]
       /\ lastStats' = [scope |-> scope, at |-> now, stats |-> StatsOf(dq, now)]

\* time passes
Tick ==
    /\ now < MaxTime
    /\ now' = now + 1

NoAllow == [scope |-> "none", n |-> 0, before |-> 0, result |-> FALSE]
NoStats == [scope |-> "none", at |-> 0,
            stats |-> [limit |-> 0, count |-> 0, window_seconds |-> 0, reset_in_seconds |-> 0]]

RLInit ==
    /\ limit \in 0..MaxLimit
    /\ hits = [s \in Scopes |-> <<>>]
    /\ admitted = [s \in Scopes |-> <<>>]
    /\ rlCalls = 0
    /\ lastAllow = NoAllow
    /\ lastStats = NoStats

----------------------------------------------------------------------------
(* CircuitBreaker, geny/gemini_api.py *)

RecordSuccessKeepsCount(cb) ==
    [cb EXCEPT !.state = "closed"]

\* record_success: reset the counter and close
record_success(cb) ==
    [cb EXCEPT !.fail_count = 0, !.state = "closed"]

RecordFailureStrict(cb, t) ==
    IF cb.fail_count + 1 > FailThreshold
    THEN [state |-> "open", fail_count |-> cb.fail_count + 1, opened_at |-> t]
    ELSE [cb EXCEPT !.fail_count = cb.fail_count + 1]

\* record_failure: count, and open (stamping opened_at) at the threshold
record_failure(cb, t) ==
    IF cb.fail_count + 1 >= FailThreshold
    THEN [state |-> "open", fail_count |-> cb.fail_count + 1, opened_at |-> t]
    ELSE [cb EXCEPT !.fail_count = cb.fail_count + 1]

AllowRequestNoCooldown(cb, t) ==
    IF cb.state = "open"
    THEN [ok |-> TRUE, cb |-> [cb EXCEPT !.state = "half_open"]]
    ELSE [ok |-> TRUE, cb |-> cb]

\* allow_request: OPEN rejects until more than recovery_timeout has passed since
\* opened_at, then turns HALF and lets the call through; CLOSED and HALF let it through
allow_request(cb, t) ==
    IF cb.state = "open"
    THEN IF t - cb.opened_at > RecoveryTimeout
         THEN [ok |-> TRUE, cb |-> [cb EXCEPT !.state = "half_open"]]
         ELSE [ok |-> FALSE, cb |-> cb]
    ELSE [ok |-> TRUE, cb |-> cb]

\* what the upstream client does with one attempt
Outcomes == {"ok", "ok_empty", "timeout", "error", "auth"}

\* the strings generate_reply / _call_gemini return, by kind
GateResults == {"none", "text", "empty", "circuit_open", "unauthorized", "exhausted", "echo"}

NoStart == [state |-> "none", since |-> 0]

\* time since opened_at as the history keeps it: exact up to recovery_timeout, then "more"
Since(d) == IF d > RecoveryTimeout THEN RecoveryTimeout + 1 ELSE d

\* generate_reply(prompt, max_retries=mr): without API key the local echo reply;
\* else _call_gemini up to its first attempt (allow_request, then the first to_thread)
GateEnter(p, mr) ==
    /\ gpc[p] = "idle"
    /\ gcalls < MaxGateCalls
    /\ gcalls' = gcalls + 1
    /\ gmax' = [gmax EXCEPT ![p] = mr]
    /\ gattempt' = [gattempt EXCEPT ![p] = 0]
    /\ last_err' = [last_err EXCEPT ![p] = "none"]
    /\ gstart' = [gstart EXCEPT ![p] = [state |-> circuit.state, since |-> Since(now - circuit.opened_at)]]
    /\ UNCHANGED <<apiKey, consec>>
    /\ IF ~apiKey
       THEN /\ gresult' = [gresult EXCEPT ![p] = "echo"]
            /\ gpc' = [gpc EXCEPT ![p] = "done"]
            /\ ginvoked' = [ginvoked EXCEPT ![p] = 0]
            /\ UNCHANGED <<circuit, lastEvent, trial>>
       ELSE LET a == allow_request(circuit, now) IN
            /\ circuit' = a.cb
            /\ lastEvent' = IF a.cb.state # circuit.state THEN "half_open" ELSE lastEvent
            /\ IF a.ok
               THEN /\ gresult' = [gresult EXCEPT ![p] = "none"]
                    /\ gpc' = [gpc EXCEPT ![p] = "attempt"]
                    /\ ginvoked' = [ginvoked EXCEPT ![p] = 1]
                    /\ trial' = IF a.cb.state = "half_open" THEN trial \cup {p} ELSE trial
               ELSE /\ gresult' = [gresult EXCEPT ![p] = "circuit_open"]
                    /\ gpc' = [gpc EXCEPT ![p] = "done"]
                    /\ ginvoked' = [ginvoked EXCEPT ![p] = 0]
                    /\ trial' = trial

\* the test of the error text for "401", "API key not valid", "Unauthorized"
IsAuthErrorNever(o) == FALSE
IsAuthError(o) == o = "auth"

\* the branch of an authentication error: record_failure, then return
OnAuthErrorFallsThrough(cb, t) == record_failure(record_failure(cb, t), t)
OnAuthError(cb, t) == record_failure(cb, t)

\* the awaited attempt ends: success returns the text; a timeout or another error
\* records a failure and goes on to the backoff sleep; an authentication error
\* records a failure and returns at once
GateAttemptEnd(p, o) ==
    /\ gpc[p] = "attempt"
    /\ UNCHANGED <<apiKey, gattempt, gmax, ginvoked, gstart, gcalls>>
    /\ IF o \in {"ok", "ok_empty"}
       THEN /\ circuit' = record_success(circuit)
            /\ consec' = 0
            /\ lastEvent' = "success"
            /\ gresult' = [gresult EXCEPT ![p] = IF o = "ok" THEN "text" ELSE "empty"]
            /\ gpc' = [gpc EXCEPT ![p] = "done"]
            /\ last_err' = last_err
       ELSE /\ circuit' = IF IsAuthError(o) THEN OnAuthError(circuit, now)
                           ELSE record_failure(circuit, now)
            /\ last_err' = [last_err EXCEPT ![p] = o]
            /\ consec' = consec + 1
            /\ lastEvent' = "failure"
            /\ IF IsAuthError(o)
               THEN /\ gresult' = [gresult EXCEPT ![p] = "unauthorized"]
                    /\ gpc' = [gpc EXCEPT ![p] = "done"]
               ELSE /\ gresult' = gresult
                    /\ gpc' = [gpc EXCEPT ![p] = "sleep"]
    /\ trial' = IF circuit'.state = "half_open" THEN trial \ {p} ELSE {}

\* for attempt in range(max_retries): whether another attempt follows attempt a
MoreAttemptsOneExtra(a, n) == a < n
MoreAttempts(a, n) == a + 1 < n

\* the backoff sleep ends: the next attempt of range(max_retries), or the
\* "Failed after N attempts" string when the range is used up
GateWake(p) ==
    /\ gpc[p] = "sleep"
    /\ UNCHANGED <<apiKey, circuit, gmax, last_err, gstart, consec, lastEvent, trial, gcalls>>
    /\ IF MoreAttempts(gattempt[p], gmax[p])
       THEN /\ gattempt' = [gattempt EXCEPT ![p] = @ + 1]
            /\ ginvoked' = [ginvoked EXCEPT ![p] = @ + 1]
            /\ gpc' = [gpc EXCEPT ![p] = "attempt"]
            /\ gresult' = gresult
       ELSE /\ gresult' = [gresult EXCEPT ![p] = "exhausted"]
            /\ gpc' = [gpc EXCEPT ![p] = "done"]
            /\ UNCHANGED <<gattempt, ginvoked>>

\* the caller takes the returned string
GateReturn(p) ==
    /\ gpc[p] = "done"
    /\ gpc' = [gpc EXCEPT ![p] = "idle"]
    /\ gattempt' = [gattempt EXCEPT ![p] = 0]
    /\ gmax' = [gmax EXCEPT ![p] = 0]
    /\ gresult' = [gresult EXCEPT ![p] = "none"]
    /\ ginvoked' = [ginvoked EXCEPT ![p] = 0]
    /\ last_err' = [last_err EXCEPT ![p] = "none"]
    /\ gstart' = [gstart EXCEPT ![p] = NoStart]
    /\ UNCHANGED <<apiKey, circuit, consec, lastEvent, trial, gcalls>>

GateInit ==
    /\ apiKey \in BOOLEAN
    /\ circuit = [state |-> "closed", fail_count |-> 0, opened_at |-> 0]
    /\ gpc = [p \in Procs |-> "idle"]
    /\ gattempt = [p \in Procs |-> 0]
    /\ gmax = [p \in Procs |-> 0]
    /\ gresult = [p \in Procs |-> "none"]
    /\ ginvoked = [p \in Procs |-> 0]
    /\ last_err = [p \in Procs |-> "none"]
    /\ gstart = [p \in Procs |-> NoStart]
    /\ consec = 0
    /\ lastEvent = "none"
    /\ trial = {}
    /\ gcalls = 0

----------------------------------------------------------------------------
(* The /chat handler (backend/main.py), the brain's generate_reply          *)
(* (geny/geny_brain.py) and the interaction table (memory.py).              *)
(* Replies are kept by kind:                                                *)
(*   "clarify"   the fixed reply to an empty message                        *)
(*   "local"     a reply the brain composes without the upstream            *)
(*   "formatted" "BRAIN - " + the upstream text                             *)
(*   "out"       "BRAIN - Gemini is out right now."                         *)
(*   "none"      generate_reply ended without a return statement (None)     *)
(*   "raw_text", "raw_empty", "raw_401", "raw_error"                        *)
(*               the gate's string passed on unchanged (RAG path): a text,  *)
(*               "" or blanks, "[Gemini 401] ...", "[Gemini error] ..."     *)
(*   "web", "web_fail", "web_off"   replies of the web-search branch        *)
(*   "apology"   "BRAIN - Sorry, I couldn't generate a reply right now."    *)
(*   "sorry_wrong"  "Sorry, something went wrong."                          *)
(*   "absent"    the response has no reply field                            *)

\* the kinds of request: an empty message, a message the brain answers locally,
\* a message the brain sends upstream, a message answered through the vector
\* store (GENY_USE_RAG=1 and the search works), a web search, a web search
\* while the web is disabled
MsgKinds == {"empty", "local", "upstream", "rag", "web", "web_off"}

\* the handler does not look at the message before it takes the RAG branch: with
\* GENY_USE_RAG=1 and a vector store an empty or blank message is searched and sent
\* upstream like any other ("rag_empty")
RagKinds == {"rag", "rag_empty"}

\* the requests whose message is empty or blank
BlankKinds == {"empty", "rag_empty"}

\* the kinds that stand for a string with at least one non-blank character
NonEmptyReplies == {"clarify", "local", "formatted", "out", "raw_text", "raw_401", "raw_error",
                    "web", "web_fail", "web_off", "apology", "sorry_wrong"}

AppendOverwrite(seq, e, cap) == <<e>>

\* seq.append(e); if len(seq) > cap: seq = seq[-cap:]
AppendTrim(seq, e, cap) ==
    LET s2 == Append(seq, e) IN
    IF Len(s2) > cap THEN SubSeq(s2, Len(s2) - cap + 1, Len(s2)) ELSE s2

\* the string gemini_api.generate_reply returns, as the RAG branch passes it on
RawReply(g) ==
    CASE g = "text" -> "raw_text"
      [] g = "echo" -> "raw_text"
      [] g = "empty" -> "raw_empty"
      [] g = "unauthorized" -> "raw_401"
      [] OTHER -> "raw_error"

\* generate_reply of the brain on the gate's string: empty or blank, an error
\* string or the offline echo ("not connected") give the "out" reply
BrainReply(g) ==
    IF g = "text" THEN "formatted" ELSE "out"

CoerceIdentity(k) == k

CoerceFallbacks(k) ==
    IF k \in {"none", "raw_empty", "out"} THEN "apology" ELSE k

\* None, "" and blank strings become the apology
Coerce(k) ==
    IF k \in {"none", "raw_empty"} THEN "apology" ELSE k

NoBody == [limit |-> 0, count |-> 0, window_seconds |-> 0, reset_in_seconds |-> 0]
NoResp == [code |-> 0, status |-> "none", reply |-> "absent", stats |-> NoBody]

\* the blanket `except Exception` of the handler
ErrorResponse == [code |-> 200, status |-> "error", reply |-> "sorry_wrong", stats |-> NoBody]

\* the end of the handler: HTTPException(502) / HTTPException(503) are raised
\* inside the handler's try and caught by its `except Exception`
Response(k) ==
    IF k \in {"raw_401", "raw_error"}
    THEN ErrorResponse
    ELSE [code |-> 200, status |-> "ok", reply |-> k, stats |-> NoBody]

\* GenyBrain.now_virtual(): the timestamp of the virtual clock, which advances
\* with the real clock (the scale factor is left out)
now_virtual == now

\* a new entry of the world state: its source, its serial number, its date
Entry(src) == [src |-> src, id |-> wseq + 1, date |-> now_virtual]

\* one entry is composed and appended to world.diary; the writers of main.py
\* hold brain._lock and cut the diary back to its last DiaryCap entries, the
\* others just append
DiaryAdd(src, trimmed) ==
    LET e == Entry(src) IN
    /\ wseq' = wseq + 1
    /\ mut' = [by |-> src, locked |-> trimmed]
    /\ diary' = IF trimmed THEN AppendTrim(diary, e, DiaryCap) ELSE Append(diary, e)
    /\ logged' = [logged EXCEPT !.diary = Append(@, e)]

\* brain.save_interaction -> MemoryModule.save_interaction: one INSERT of the
\* pair (user_message, geny_reply); an exception of the store is swallowed
save_interaction(p, m, k, st) ==
    /\ cstore' = [cstore EXCEPT ![p] = st]
    /\ rows' = IF st = "ok" THEN rows + 1 ELSE rows
    /\ crow' = [crow EXCEPT ![p] = IF st = "ok" THEN Append(@, [input |-> m, output |-> k]) ELSE @]

FinishStoreRaises(p, m, k) ==
    \E st \in {"ok", "failed"} :
        /\ creply' = [creply EXCEPT ![p] = k]
        /\ save_interaction(p, m, Coerce(k), st)
        /\ IF autoDiary /\ st = "ok" THEN DiaryAdd("chat", TRUE) ELSE UNCHANGED dlog
        /\ resp' = [resp EXCEPT ![p] = IF st = "ok" THEN Response(Coerce(k)) ELSE ErrorResponse]
        /\ chatpc' = [chatpc EXCEPT ![p] = "done"]

\* the handler from the coercion of the reply to its return: coerce, persist
\* the interaction (st: the store works or fails; a failure is logged), write
\* the auto-diary entry under the lock when the auto-diary is enabled, answer
Finish(p, m, k) ==
    \E st \in {"ok", "failed"} :
        /\ creply' = [creply EXCEPT ![p] = k]
        /\ save_interaction(p, m, Coerce(k), st)
        /\ IF autoDiary THEN DiaryAdd("chat", TRUE) ELSE UNCHANGED dlog
        /\ resp' = [resp EXCEPT ![p] = Response(Coerce(k))]
        /\ chatpc' = [chatpc EXCEPT ![p] = "done"]

\* an exception leaves the handler's body: nothing is persisted
Crash(p) ==
    /\ creply' = [creply EXCEPT ![p] = "absent"]
    /\ resp' = [resp EXCEPT ![p] = ErrorResponse]
    /\ chatpc' = [chatpc EXCEPT ![p] = "done"]
    /\ UNCHANGED <<cstore, rows, crow, dlog>>

\* the handler awaits the gate
Await(p, where) ==
    /\ GateEnter(p, MaxRetries)
    /\ chatpc' = [chatpc EXCEPT ![p] = where]
    /\ UNCHANGED <<creply, cstore, resp, rows, crow, dlog>>

DenyAndRecord(p, dq) ==
    /\ hits' = [hits EXCEPT !["/chat"] = dq]
    /\ resp' = [resp EXCEPT ![p] =
                 [code |-> 429, status |-> "rate_limited", reply |-> "absent",
                  stats |-> StatsOf(prune(dq, now), now)]]
    /\ chatpc' = [chatpc EXCEPT ![p] = "done"]
    /\ rows' = rows + 1
    /\ UNCHANGED <<creply, cstore, crow, dlog, gateVars>>

\* the limiter denies: 429 with the limiter's stats
Deny(p, dq) ==
    /\ hits' = [hits EXCEPT !["/chat"] = dq]
    /\ resp' = [resp EXCEPT ![p] =
                 [code |-> 429, status |-> "rate_limited", reply |-> "absent",
                  stats |-> StatsOf(prune(dq, now), now)]]
    /\ chatpc' = [chatpc EXCEPT ![p] = "done"]
    /\ UNCHANGED <<creply, cstore, rows, crow, dlog, gateVars>>

\* brain.generate_reply(message) up to its first suspension: the clarification
\* for an empty message; a locally composed reply; else the world update,
\* which raises KeyError when the loaded memory has no world.relations or
\* world.experiences (w = self.memory.get("world", {}), then w["relations"]),
\* and the call of the gate
Brain(p, m) ==
    CASE m = "empty" -> Finish(p, m, "clarify") /\ UNCHANGED gateVars
      [] m = "local" -> Finish(p, m, "local") /\ UNCHANGED gateVars
      [] OTHER ->
            \/ Await(p, "await_brain")
            \/ Crash(p) /\ UNCHANGED gateVars

\* POST /chat up to its first suspension
ChatBegin(p, m) ==
    /\ chatpc[p] = "idle" /\ gpc[p] = "idle"
    /\ (p = "p2" => chatpc["p1"] # "idle")
    /\ cmsg' = [cmsg EXCEPT ![p] = m]
    /\ LET a == Admit(hits["/chat"], now) IN
       IF ~a.ok
       THEN Deny(p, a.dq)
       ELSE /\ hits' = [hits EXCEPT !["/chat"] = a.dq]
            /\ CASE m = "web_off" -> Finish(p, m, "web_off") /\ UNCHANGED gateVars
                 [] m = "web" ->
                       /\ chatpc' = [chatpc EXCEPT ![p] = "await_ddg"]
                       /\ UNCHANGED <<creply, cstore, resp, rows, crow, dlog, gateVars>>
                 [] m \in RagKinds -> Await(p, "await_rag")
                 [] OTHER -> Brain(p, m)

\* ddg_instant_answer returns (x = "ok") or raises; then the summary is asked
\* of the gate
ChatDdgDone(p, x) ==
    /\ chatpc[p] = "await_ddg"
    /\ UNCHANGED <<cmsg, hits>>
    /\ IF x = "ok"
       THEN Await(p, "await_web")
       ELSE Finish(p, cmsg[p], "web_fail") /\ UNCHANGED gateVars

\* the gate has returned: the rest of the handler runs to its return.
\*   ft: the brain's generate_reply leaves its try block without reaching a
\*   return statement (lines 769-804 hold none; the return of line 820 belongs
\*   to the except block), so it returns either the reply or None;
\*   it raises KeyError when the memory has no world.recent_replies (line 774,
\*   and again in the except block, line 808)
ChatGateDone(p, ft) ==
    /\ chatpc[p] \in {"await_web", "await_rag", "await_brain"}
    /\ gpc[p] = "done"
    /\ GateReturn(p)
    /\ UNCHANGED <<cmsg, hits>>
    /\ CASE chatpc[p] = "await_web" -> Finish(p, cmsg[p], "web")
         [] chatpc[p] = "await_rag" -> Finish(p, cmsg[p], RawReply(gresult[p]))
         [] OTHER ->
               \/ Finish(p, cmsg[p], IF ft THEN "none" ELSE BrainReply(gresult[p]))
               \/ Crash(p)

\* the response is delivered; a task serves one request
ChatClose(p) ==
    /\ chatpc[p] = "done"
    /\ chatpc' = [chatpc EXCEPT ![p] = "closed"]
    /\ cmsg' = [cmsg EXCEPT ![p] = "none"]
    /\ creply' = [creply EXCEPT ![p] = "absent"]
    /\ cstore' = [cstore EXCEPT ![p] = "none"]
    /\ crow' = [crow EXCEPT ![p] = <<>>]
    /\ resp' = [resp EXCEPT ![p] = NoResp]
    /\ UNCHANGED <<hits, rows, dlog, gateVars>>

ChatInit ==
    /\ autoDiary \in BOOLEAN
    /\ chatpc = [p \in Procs |-> "idle"]
    /\ cmsg = [p \in Procs |-> "none"]
    /\ creply = [p \in Procs |-> "absent"]
    /\ cstore = [p \in Procs |-> "none"]
    /\ resp = [p \in Procs |-> NoResp]
    /\ rows = 0
    /\ crow = [p \in Procs |-> <<>>]

----------------------------------------------------------------------------
(* The writers of the world state: tasks that append one entry under       *)
(* brain._lock (the auto-diary of /chat, the exploration loop,              *)
(* /world/diary/add, /world/feelings/add), and the two that append without  *)
(* the lock and without a cap (the brain's reflection entries, the nightly  *)
(* summary).  asyncio runs one task at a time and no writer suspends        *)
(* between taking the lock and releasing it, so a critical section is one   *)
(* step; a task is suspended between its start and its critical section.    *)

WKinds == {"chat", "auto", "manual", "feeling"}
NoEntry == [src |-> "none", id |-> 0, date |-> 0]

\* a writer task starts: the entry it will append is determined by its input
WStart(p, k) ==
    /\ wpc[p] = "idle"
    /\ (p = "p2" => wpc["p1"] # "idle")
    /\ k = "chat" => autoDiary
    /\ wseq < MaxAppends
    /\ wseq' = wseq + 1
    /\ wentry' = [wentry EXCEPT ![p] = Entry(k)]
    /\ wpc' = [wpc EXCEPT ![p] = "ready"]
    /\ UNCHANGED <<diary, feelings, logged, rows, presence, topkeys, mut>>

\* the critical section: append, cut back to the cap; the exploration loop
\* then records its interaction
WAppend(p) ==
    /\ wpc[p] = "ready"
    /\ wpc' = [wpc EXCEPT ![p] = "done"]
    /\ IF wentry[p].src = "feeling"
       THEN /\ feelings' = AppendTrim(feelings, wentry[p], FeelingsCap)
            /\ logged' = [logged EXCEPT !.feelings = Append(@, wentry[p])]
            /\ UNCHANGED diary
       ELSE /\ diary' = AppendTrim(diary, wentry[p], DiaryCap)
            /\ logged' = [logged EXCEPT !.diary = Append(@, wentry[p])]
            /\ UNCHANGED feelings
    /\ rows' = IF wentry[p].src = "auto" THEN rows + 1 ELSE rows
    /\ mut' = [by |-> wentry[p].src, locked |-> TRUE]
    /\ UNCHANGED <<wseq, wentry, presence, topkeys>>

\* the task ends
WEnd(p) ==
    /\ wpc[p] = "done"
    /\ wpc' = [wpc EXCEPT ![p] = "idle"]
    /\ wentry' = [wentry EXCEPT ![p] = NoEntry]
    /\ UNCHANGED <<diary, feelings, logged, wseq, rows, presence, topkeys, mut>>

\* GenyBrain.generate_reply notes a new trait or a reflection in the diary
BrainReflect ==
    /\ wseq < MaxAppends
    /\ DiaryAdd("brain", FALSE)
    /\ UNCHANGED <<feelings, wpc, wentry, rows, presence, topkeys>>

\* run_nightly stores the daily summary in the diary
run_nightly ==
    /\ wseq < MaxAppends
    /\ DiaryAdd("nightly", FALSE)
    /\ UNCHANGED <<feelings, wpc, wentry, rows, presence, topkeys>>

\* the mutations made so far outside the diary and the feelings
Mutations == presence + topkeys.sync + topkeys.imports

\* _movement_tick: presence.ticks += 1 under brain._lock
movement_tick ==
    /\ Mutations < MaxMutations
    /\ presence' = presence + 1
    /\ mut' = [by |-> "movement", locked |-> TRUE]
    /\ UNCHANGED <<diary, feelings, wseq, logged, wpc, wentry, topkeys, rows>>

\* POST /sync: brain.memory.setdefault("sync_data", {}).update(data), then
\* save_memory; brain._lock is not taken
sync_endpoint ==
    /\ Mutations < MaxMutations
    /\ topkeys' = [topkeys EXCEPT !.sync = @ + 1]
    /\ mut' = [by |-> "sync", locked |-> FALSE]
    /\ UNCHANGED <<diary, feelings, wseq, logged, wpc, wentry, presence, rows>>

\* POST /admin/import-memory: brain.memory.update(payload), then save_memory;
\* brain._lock is not taken.  The payload carries keys other than "world"
import_memory ==
    /\ Mutations < MaxMutations
    /\ topkeys' = [topkeys EXCEPT !.imports = @ + 1]
    /\ mut' = [by |-> "import", locked |-> FALSE]
    /\ UNCHANGED <<diary, feelings, wseq, logged, wpc, wentry, presence, rows>>

NoMutation == [by |-> "none", locked |-> TRUE]

\* the world has no "birthdate"
NoBirth == -1

\* the birthdates a memory dump may carry
BirthDates == {0, 1}

\* GenyBrain.generate_reply on a question about the age ("how long", "how old"):
\* birthdate is set to the current time when the world has none, and the reflection
\* on the age goes to the diary (a memory without "world" gives a detached
\* dictionary and nothing of this is kept; that case is left out)
AgeQuestion ==
    /\ wseq < MaxAppends
    /\ birthdate' = IF birthdate = NoBirth THEN now ELSE birthdate
    /\ DiaryAdd("brain", FALSE)
    /\ UNCHANGED <<feelings, wpc, wentry, rows, presence, topkeys>>

\* POST /admin/import-memory with a dump that has a "world": brain.memory.update
\* replaces the whole world by the dump's, here a world with birthdate b (or none)
\* and nothing else
ImportWorld(b) ==
    /\ Mutations < MaxMutations
    /\ topkeys' = [topkeys EXCEPT !.imports = @ + 1]
    /\ mut' = [by |-> "import", locked |-> FALSE]
    /\ birthdate' = b
    /\ diary' = <<>>
    /\ feelings' = <<>>
    /\ presence' = 0
    /\ UNCHANGED <<wseq, logged, wpc, wentry, rows>>

WorldInit ==
    /\ diary = <<>>
    /\ feelings = <<>>
    /\ wseq = 0
    /\ logged = [diary |-> <<>>, feelings |-> <<>>]
    /\ wpc = [p \in Procs |-> "idle"]
    /\ wentry = [p \in Procs |-> NoEntry]
    /\ presence = 0
    /\ topkeys = [sync |-> 0, imports |-> 0]
    /\ mut = NoMutation

----------------------------------------------------------------------------
(* The background loops of backend/main.py: the exploration loop and the    *)
(* movement loop, their start and stop handlers, and the asyncio tasks that *)
(* run them. A task is cancelled by a request that is delivered when the    *)
(* task is next resumed; until then the task is not done.                   *)

Loops == {"exploration", "movement"}

\* _exploration_state / _movement_state at import ("runs" stands for "ticks" too)
StateAtImport ==
    [running |-> FALSE, started_at |-> -1, interval_seconds |-> 0, runs |-> 0,
     follow_exploration |-> TRUE]

\* the base intervals a start request carries: 0 for a body without one
Bases == {0, 1}

\* _effective_interval at VIRTUAL_TIME_SCALE 1: the default base (120, and 60 for
\* the movement loop, whose handler fills it in), clamped to [5, 3600]
Clamp(x) == IF x < 5 THEN 5 ELSE IF x > 3600 THEN 3600 ELSE x
effective_interval(L, base) ==
    Clamp(IF base = 0 THEN (IF L = "movement" THEN 60 ELSE 120) ELSE base)

NewTask == [pc |-> "new", must_cancel |-> FALSE, raised |-> FALSE]
Suspended == {"new", "upstream", "sleep"}

\* Task.done()
done(t) == t.pc \in {"cancelled", "returned"}

\* `_task and not _task.done()` on the handle of loop L
Alive(L) == loop_task[L] # 0 /\ ~done(tasks[L][loop_task[L]])

NoRequest == [kind |-> "none", loop |-> "exploration"]

\* a handler of a start or stop request receives the request
LoopRequest(p, kind, L) ==
    /\ hpc[p] = "idle"
    /\ lcalls < MaxLoopCalls
    /\ lcalls' = lcalls + 1
    /\ hreq' = [hreq EXCEPT ![p] = [kind |-> kind, loop |-> L]]

\* start_exploration / start_movement up to `await request.json()`
StartBegin(p, L) ==
    /\ LoopRequest(p, "start", L)
    /\ hpc' = [hpc EXCEPT ![p] = "json"]
    /\ hresp' = [hresp EXCEPT ![p] = "none"]
    /\ UNCHANGED <<loop_state, loop_task, tasks, hwait>>

\* start after the body is read (base interval and follow_exploration of the
\* payload): "already_running" while the handle holds a task that is not done; else
\* the state is updated and one task is created
StartEnd(p, base, follow) ==
    LET L == hreq[p].loop
        interval == effective_interval(L, base) IN
    /\ hpc[p] = "json"
    /\ hpc' = [hpc EXCEPT ![p] = "done"]
    /\ UNCHANGED <<hreq, hwait, lcalls>>
    /\ IF Alive(L)
       THEN /\ hresp' = [hresp EXCEPT ![p] = "already_running"]
            /\ UNCHANGED <<loop_state, loop_task, tasks>>
       ELSE /\ loop_state' = [loop_state EXCEPT ![L] =
                  [running |-> TRUE, started_at |-> now, interval_seconds |-> interval,
                   runs |-> 0,
                   follow_exploration |-> IF L = "movement" THEN follow ELSE @.follow_exploration]]
            /\ tasks' = [tasks EXCEPT ![L] = Append(@, NewTask)]
            /\ loop_task' = [loop_task EXCEPT ![L] = Len(tasks[L]) + 1]
            /\ hresp' = [hresp EXCEPT ![p] = "started"]

\* stop_exploration / stop_movement up to `await _task`: running is cleared; a task
\* that is not done is asked to cancel and awaited, else the handle is cleared
StopBegin(p, L) ==
    /\ LoopRequest(p, "stop", L)
    /\ loop_state' = [loop_state EXCEPT ![L].running = FALSE]
    /\ IF Alive(L)
       THEN /\ tasks' = [tasks EXCEPT ![L][loop_task[L]].must_cancel = TRUE]
            /\ hwait' = [hwait EXCEPT ![p] = loop_task[L]]
            /\ hpc' = [hpc EXCEPT ![p] = "await_task"]
            /\ hresp' = [hresp EXCEPT ![p] = "none"]
            /\ UNCHANGED loop_task
       ELSE /\ loop_task' = [loop_task EXCEPT ![L] = 0]
            /\ hpc' = [hpc EXCEPT ![p] = "done"]
            /\ hresp' = [hresp EXCEPT ![p] = "stopped"]
            /\ UNCHANGED <<tasks, hwait>>

\* the awaited task is done: the handler goes on after `await _task`. Awaiting a
\* cancelled task raises CancelledError, which derives from BaseException (the
\* module needs Python 3.10 for its annotations): neither `except Exception: pass`
\* nor the handler's outer `except Exception` catches it, and it leaves the handler
StopEnd(p) ==
    LET L == hreq[p].loop IN
    /\ hpc[p] = "await_task"
    /\ done(tasks[L][hwait[p]])
    /\ hpc' = [hpc EXCEPT ![p] = "done"]
    /\ UNCHANGED <<loop_state, tasks, hreq, hwait, lcalls>>
    /\ IF tasks[L][hwait[p]].pc = "cancelled"
       THEN /\ hresp' = [hresp EXCEPT ![p] = "CancelledError"]
            /\ UNCHANGED loop_task
       ELSE /\ loop_task' = [loop_task EXCEPT ![L] = 0]
            /\ hresp' = [hresp EXCEPT ![p] = "stopped"]

\* the response has gone out
LoopClose(p) ==
    /\ hpc[p] = "done"
    /\ hpc' = [hpc EXCEPT ![p] = "idle"]
    /\ hreq' = [hreq EXCEPT ![p] = NoRequest]
    /\ hresp' = [hresp EXCEPT ![p] = "none"]
    /\ hwait' = [hwait EXCEPT ![p] = 0]
    /\ UNCHANGED <<loop_state, loop_task, tasks, lcalls>>

\* whether a cancellation request reaches the task when it is resumed
CancelIgnored(t) == FALSE
CancelDelivered(t) == t.must_cancel

\* a suspended task that was asked to cancel is resumed: CancelledError is raised at
\* its await (or before its first step), passes every `except Exception` of the
\* loop, and the task is done
TaskCancelled(L, i) ==
    /\ tasks[L][i].pc \in Suspended
    /\ CancelDelivered(tasks[L][i])
    /\ tasks' = [tasks EXCEPT ![L][i].pc = "cancelled", ![L][i].raised = FALSE]
    /\ UNCHANGED <<loop_state, loop_task, hpc, hreq, hresp, hwait, lcalls>>

\* what the loop does after an iteration raised an exception
AfterExceptionEnds == "returned"
AfterException == "sleep"

\* the products of one exploration iteration, from the reply on: the diary entry
\* under brain._lock, the interaction row (a failure of the store, which is
\* swallowed and changes nothing, is left out), runs, and a movement tick when the
\* movement loop runs and follows
ExplorationProducts ==
    /\ DiaryAdd("auto", TRUE)
    /\ rows' = rows + 1
    /\ loop_state' =
         [loop_state EXCEPT
            !["exploration"].runs = @ + 1,
            !["movement"].runs =
               IF loop_state["movement"].running /\ loop_state["movement"].follow_exploration
               THEN @ + 1 ELSE @]
    /\ presence' =
         IF loop_state["movement"].running /\ loop_state["movement"].follow_exploration
         THEN presence + 1 ELSE presence

\* _movement_tick: presence.ticks += 1 under brain._lock, then ticks of the state
\* (the ping of method "http" changes nothing and is left out)
MovementProducts ==
    /\ presence' = presence + 1
    /\ mut' = [by |-> "movement", locked |-> TRUE]
    /\ loop_state' = [loop_state EXCEPT !["movement"].runs = @ + 1]
    /\ UNCHANGED <<diary, wseq, logged, rows, hits>>

\* the task is resumed at the top of `while running` (first step, or end of the
\* sleep): it returns when running is false; else one iteration up to its first
\* suspension or to the sleep. x = "raise": the iteration raises before it
\* produced anything, the exception is logged
LoopTop(L, i, x) ==
    LET t == tasks[L][i] IN
    /\ t.pc \in {"new", "sleep"}
    /\ ~CancelDelivered(t)
    /\ UNCHANGED <<loop_task, hpc, hreq, hresp, hwait, lcalls>>
    /\ IF ~loop_state[L].running
       THEN /\ tasks' = [tasks EXCEPT ![L][i].pc = "returned", ![L][i].raised = FALSE]
            /\ UNCHANGED <<loop_state, diary, wseq, logged, mut, rows, presence, hits>>
       ELSE /\ loop_state[L].runs < MaxRuns /\ wseq < MaxAppends
            /\ IF x = "raise"
               THEN /\ tasks' = [tasks EXCEPT ![L][i].pc = AfterException, ![L][i].raised = TRUE]
                    /\ UNCHANGED <<loop_state, diary, wseq, logged, mut, rows, presence, hits>>
               ELSE IF L = "movement"
               THEN /\ MovementProducts
                    /\ tasks' = [tasks EXCEPT ![L][i].pc = "sleep", ![L][i].raised = FALSE]
               ELSE LET a == Admit(hits["/exploration/loop"], now) IN
                    /\ hits' = [hits EXCEPT !["/exploration/loop"] = a.dq]
                    /\ IF a.ok
                       THEN /\ tasks' = [tasks EXCEPT ![L][i].pc = "upstream"]
                            /\ UNCHANGED <<loop_state, diary, wseq, logged, mut, rows, presence>>
                       ELSE /\ ExplorationProducts
                            /\ tasks' = [tasks EXCEPT ![L][i].pc = "sleep", ![L][i].raised = FALSE]

\* gemini_api.generate_reply has returned, or raised and the placeholder reply is
\* used: the rest of the exploration iteration
LoopReply(i, x) ==
    LET t == tasks["exploration"][i] IN
    /\ t.pc = "upstream"
    /\ ~CancelDelivered(t)
    /\ UNCHANGED <<loop_task, hpc, hreq, hresp, hwait, lcalls, hits>>
    /\ IF x = "raise"
       THEN /\ tasks' = [tasks EXCEPT !["exploration"][i].pc = AfterException,
                                      !["exploration"][i].raised = TRUE]
            /\ UNCHANGED <<loop_state, diary, wseq, logged, mut, rows, presence>>
       ELSE /\ ExplorationProducts
            /\ tasks' = [tasks EXCEPT !["exploration"][i].pc = "sleep",
                                      !["exploration"][i].raised = FALSE]

LoopInit ==
    /\ loop_state = [L \in Loops |-> StateAtImport]
    /\ loop_task = [L \in Loops |-> 0]
    /\ tasks = [L \in Loops |-> <<>>]
    /\ hpc = [p \in Procs |-> "idle"]
    /\ hreq = [p \in Procs |-> NoRequest]
    /\ hresp = [p \in Procs |-> "none"]
    /\ hwait = [p \in Procs |-> 0]
    /\ lcalls = 0

----------------------------------------------------------------------------
(* The interaction table of memory.py (sqlite table conversations) and the  *)
(* JSON document beside it. The table is the sequence of its rows in id     *)
(* order: ids are AUTOINCREMENT and no row is ever deleted.                  *)

Msgs == {"a", "b"}

\* an interaction of a snapshot has no "timestamp" (or None, or "")
NoTs == -1

\* the interactions a snapshot may carry, and the snapshots given to save_memory_dict
SnapEntries == [timestamp : {NoTs, 0}, message : {"a"}, reply : {"r1"}]
                  \cup [timestamp : {0}, message : {"b"}, reply : {"r2"}]
Snapshots == {<<>>} \cup {<<e>> : e \in SnapEntries}
                \cup {<<e, f>> : e \in SnapEntries, f \in SnapEntries}

RECURSIVE Reverse(_)
Reverse(s) == IF s = <<>> THEN <<>> ELSE Append(Reverse(Tail(s)), Head(s))

\* LIMIT n of a result set
Limit(s, n) == IF n >= Len(s) THEN s ELSE SubSeq(s, 1, n)

\* the dictionary get_last_n makes of a row
RowDict(r) == [timestamp |-> r.timestamp, message |-> r.user_message, reply |-> r.geny_reply]

\* get_last_n: SELECT ... ORDER BY id DESC LIMIT n, reversed, as dictionaries
GetLastNNewestFirst(table, n) ==
    LET got == Limit(Reverse(table), n) IN [i \in DOMAIN got |-> RowDict(got[i])]
get_last_n(table, n) ==
    LET got == Reverse(Limit(Reverse(table), n)) IN [i \in DOMAIN got |-> RowDict(got[i])]

\* SELECT id FROM conversations WHERE timestamp = ts AND user_message = msg LIMIT 1
HasRow(table, ts, msg) ==
    \E i \in DOMAIN table : table[i].timestamp = ts /\ table[i].user_message = msg

RECURSIVE LoadIntoUpsert(_, _, _)
LoadIntoUpsert(table, its, t) ==
    IF its = <<>> THEN table
    ELSE LET it == Head(its)
             ts == IF it.timestamp = NoTs THEN t ELSE it.timestamp
         IN LoadIntoUpsert(
                IF HasRow(table, ts, it.message)
                THEN [i \in DOMAIN table |->
                        IF table[i].timestamp = ts /\ table[i].user_message = it.message
                        THEN [table[i] EXCEPT !.geny_reply = it.reply] ELSE table[i]]
                ELSE Append(table, [timestamp |-> ts, user_message |-> it.message,
                                    geny_reply |-> it.reply]),
                Tail(its), t)

\* the loop of save_memory_dict over the interactions, on one connection: an
\* interaction without timestamp gets the clock's, and is inserted unless a row
\* with its timestamp and message is there
RECURSIVE LoadInto(_, _, _)
LoadInto(table, its, t) ==
    IF its = <<>> THEN table
    ELSE LET it == Head(its)
             ts == IF it.timestamp = NoTs THEN t ELSE it.timestamp
         IN LoadInto(IF HasRow(table, ts, it.message) THEN table
                     ELSE Append(table, [timestamp |-> ts, user_message |-> it.message,
                                         geny_reply |-> it.reply]),
                     Tail(its), t)

NoGet == [n |-> 0, total |-> 0, rows |-> <<>>, asked |-> FALSE]
NoLoad == [snap |-> <<>>, before |-> <<>>, after |-> <<>>, again |-> FALSE, asked |-> FALSE]

\* MemoryModule.save_interaction: one INSERT, then the interaction is appended to
\* the JSON document
MemSave(m, r) ==
    /\ mcalls < MaxMemCalls
    /\ mcalls' = mcalls + 1
    /\ conversations' = Append(conversations, [timestamp |-> now, user_message |-> m, geny_reply |-> r])
    /\ json_doc' = Append(json_doc, [timestamp |-> now, message |-> m, reply |-> r])
    /\ rows' = Len(conversations')
    /\ UNCHANGED <<lastGet, lastLoad>>

\* MemoryModule.get_last_n(n)
MemGet(n) ==
    /\ mcalls < MaxMemCalls
    /\ mcalls' = mcalls + 1
    /\ lastGet' = [n |-> n, total |-> Len(conversations), rows |-> get_last_n(conversations, n),
                   asked |-> TRUE]
    /\ UNCHANGED <<conversations, json_doc, rows, lastLoad>>

\* MemoryModule.save_memory_dict(mem): the JSON document is replaced by the
\* snapshot, then its interactions are merged into the table
MemLoad(snap) ==
    /\ mcalls < MaxMemCalls
    /\ mcalls' = mcalls + 1
    /\ json_doc' = snap
    /\ conversations' = LoadInto(conversations, snap, now)
    /\ rows' = Len(conversations')
    /\ lastLoad' = [snap |-> snap, before |-> conversations, after |-> conversations',
                    again |-> lastLoad.asked /\ lastLoad.snap = snap, asked |-> TRUE]
    /\ UNCHANGED lastGet

MemInit ==
    /\ conversations = <<>>
    /\ json_doc = <<>>
    /\ lastGet = NoGet
    /\ lastLoad = NoLoad
    /\ mcalls = 0

----------------------------------------------------------------------------
(* Persistence: the two backends of an interaction (the table conversations *)
(* and the document memory.json) and the saves of brain.memory.             *)
(* MemoryModule() and GenyBrain() are constructed without arguments, so     *)
(* MemoryModule.json_path and GenyBrain.memory_file are the same file,      *)
(* "memory.json" of the working directory.                                  *)
(* The handlers run on the event loop without suspending between the reply  *)
(* and their return, so one of them is in its synchronous section at a      *)
(* time (spc); the threads of the executor that run save_memory for         *)
(* _async_save run beside it and take their steps at any time.              *)

\* the entry MemoryModule.save_interaction appends to the document
ModEntry(m) == [timestamp |-> now, message |-> m, reply |-> "r1"]

\* the entry the brain appends to brain.memory["interactions"] for a reply it composed
BrainEntry(m) == [timestamp |-> now, message |-> m, reply |-> "r1", source |-> "identity"]

\* the row of an interaction
Row(m) == [timestamp |-> now, user_message |-> m, geny_reply |-> "r1"]

\* json.load of memory.json inside save_interaction: a file that does not parse
\* gives {"interactions": []}
ReadDoc ==
    IF json_file.whole THEN [interactions |-> json_doc, world |-> json_file.world]
    ELSE [interactions |-> <<>>, world |-> 0]

NoIO == [kind |-> "none", locked |-> FALSE]
NoRec == [message |-> "none", table |-> "none", doc |-> "none"]

\* os.replace(tmp_path, memory.json): the file becomes the document d
ReplaceWith(d) ==
    /\ json_doc' = d.interactions
    /\ json_file' = [whole |-> TRUE, world |-> d.world]

\* save_memory, called synchronously: brain.memory is dumped to a temporary file
\* which replaces memory.json
SyncSave(mem, held) ==
    /\ ReplaceWith(mem)
    /\ lastIO' = [kind |-> "save", locked |-> held]

\* the first half of MemoryModule.save_interaction: the INSERT, then the document
\* is read and the entry appended to `data`. tf: the table fails, the exception
\* leaves save_interaction before the document is touched and is logged by
\* brain.save_interaction
RecordInsert(m, tf) ==
    IF tf
    THEN /\ lastRec' = [message |-> m, table |-> "failed", doc |-> "skipped"]
         /\ spc' = "recorded"
         /\ UNCHANGED <<conversations, rows, sdata>>
    ELSE /\ conversations' = Append(conversations, Row(m))
         /\ rows' = Len(conversations')
         /\ sdata' = [ReadDoc EXCEPT !.interactions = Append(@, ModEntry(m))]
         /\ lastRec' = [message |-> m, table |-> "ok", doc |-> "none"]
         /\ spc' = "replace"

\* POST /chat from the reply on, for a message the brain answers with its identity
\* reply: under brain._lock the entry is appended to brain.memory["interactions"]
\* and save_memory is called
ChatIdentity(m) ==
    /\ spc = "idle" /\ scalls < MaxStoreCalls
    /\ scalls' = scalls + 1
    /\ smsg' = m
    /\ lock' = TRUE
    /\ memory' = [memory EXCEPT !.interactions = Append(@, BrainEntry(m))]
    /\ SyncSave(memory', TRUE)
    /\ spc' = "id_locked"
    /\ UNCHANGED <<conversations, rows, sdata, pending, submitted, dumps, recorded, lastRec>>

\* the lock is released, generate_reply returns and the handler calls
\* brain.save_interaction
ChatIdentityRecord(tf) ==
    /\ spc = "id_locked"
    /\ lock' = FALSE
    /\ RecordInsert(smsg, tf)
    /\ UNCHANGED <<memory, json_doc, json_file, smsg, pending, submitted, dumps, lastIO,
                   recorded, scalls>>

\* POST /chat from the reply on, for a reply that did not come from the brain's own
\* branches (web search, RAG, upstream text): the handler calls brain.save_interaction
ChatPlain(m, tf) ==
    /\ spc = "idle" /\ scalls < MaxStoreCalls
    /\ scalls' = scalls + 1
    /\ smsg' = m
    /\ RecordInsert(m, tf)
    /\ UNCHANGED <<memory, json_doc, json_file, lock, pending, submitted, dumps, lastIO,
                   recorded>>

\* the second half of save_interaction: `data` is written to a temporary file which
\* replaces memory.json. jf: the write or the rename raises, the temporary file is
\* removed and the exception swallowed
RecordReplace(jf) ==
    /\ spc = "replace"
    /\ spc' = "recorded"
    /\ IF jf
       THEN /\ lastRec' = [lastRec EXCEPT !.doc = "failed"]
            /\ UNCHANGED <<json_doc, json_file, recorded>>
       ELSE /\ ReplaceWith(sdata)
            /\ lastRec' = [lastRec EXCEPT !.doc = "ok"]
            /\ recorded' = recorded \cup {smsg}
    /\ sdata' = [interactions |-> <<>>, world |-> 0]
    /\ UNCHANGED <<conversations, rows, memory, lock, smsg, pending, submitted, dumps, lastIO,
                   scalls>>

\* a mutation of the world state as main.py makes it: under brain._lock the world is
\* changed and asyncio.create_task(brain._async_save()) is called
LockedMutation ==
    /\ lock' = TRUE
    /\ memory' = [memory EXCEPT !.world = @ + 1]
    /\ pending' = pending + 1
    /\ lastIO' = [kind |-> "schedule", locked |-> TRUE]

\* the auto-diary entry that ends the /chat handler
ChatDiary ==
    /\ spc = "recorded"
    /\ LockedMutation
    /\ spc' = "locked"
    /\ UNCHANGED <<conversations, rows, json_doc, json_file, smsg, sdata, submitted, dumps,
                   recorded, lastRec, scalls>>

\* _movement_tick of the movement loop
StoreMovementTick ==
    /\ spc = "idle" /\ scalls < MaxStoreCalls
    /\ scalls' = scalls + 1
    /\ LockedMutation
    /\ spc' = "locked"
    /\ UNCHANGED <<conversations, rows, json_doc, json_file, smsg, sdata, submitted, dumps,
                   recorded, lastRec>>

\* the end of `async with brain._lock`, and of the handler or the tick
Unlock ==
    /\ spc = "locked"
    /\ lock' = FALSE
    /\ spc' = "idle"
    /\ smsg' = "none"
    /\ UNCHANGED <<conversations, rows, json_doc, json_file, memory, sdata, pending, submitted,
                   dumps, lastIO, recorded, lastRec, scalls>>

\* POST /sync: brain.memory is changed without the lock and save_memory is called
StoreSync ==
    /\ spc = "idle" /\ scalls < MaxStoreCalls
    /\ scalls' = scalls + 1
    /\ memory' = [memory EXCEPT !.world = @ + 1]
    /\ SyncSave(memory', lock)
    /\ UNCHANGED <<conversations, rows, lock, spc, smsg, sdata, pending, submitted, dumps,
                   recorded, lastRec>>

\* MemoryModule.export_json() with the default path: open(memory.json, "w")
\* truncates the file
ExportOpen ==
    /\ spc = "idle" /\ scalls < MaxStoreCalls
    /\ scalls' = scalls + 1
    /\ json_doc' = <<>>
    /\ json_file' = [whole |-> FALSE, world |-> 0]
    /\ spc' = "export"
    /\ UNCHANGED <<conversations, rows, memory, lock, smsg, sdata, pending, submitted, dumps,
                   lastIO, recorded, lastRec>>

\* the document export_json writes: the rows of the table and nothing else
ExportDoc ==
    [interactions |-> [i \in DOMAIN conversations |-> RowDict(conversations[i])], world |-> 0]

\* json.dump of export_json into the open file. x = "raise": the write is interrupted
\* and the file stays as far as it was written. A file that a save has replaced in
\* between ("export_detached") is no longer the one export_json writes to
ExportWrite(x) ==
    /\ spc \in {"export", "export_detached"}
    /\ spc' = "idle"
    /\ IF spc = "export" /\ x = "ok" THEN ReplaceWith(ExportDoc) ELSE UNCHANGED <<json_doc, json_file>>
    /\ UNCHANGED <<conversations, rows, memory, lock, smsg, sdata, pending, submitted, dumps,
                   lastIO, recorded, lastRec, scalls>>

\* the event loop runs a task of _async_save: save_memory goes to the executor
SaveSubmit ==
    /\ spc = "idle" /\ pending > 0
    /\ pending' = pending - 1
    /\ submitted' = submitted + 1
    /\ UNCHANGED <<conversations, rows, json_doc, json_file, memory, lock, spc, smsg, sdata,
                   dumps, lastIO, recorded, lastRec, scalls>>

\* a thread of the executor starts save_memory: brain.memory is dumped to a temporary
\* file. x = "raise": the dump raises (the dictionary changes under it, the disk is
\* full), the temporary file is removed and the exception swallowed
SaveDump(x) ==
    /\ submitted > 0
    /\ submitted' = submitted - 1
    /\ dumps' = IF x = "ok" THEN dumps \cup {memory} ELSE dumps
    /\ lastIO' = [kind |-> "dump", locked |-> lock]
    /\ UNCHANGED <<conversations, rows, json_doc, json_file, memory, lock, spc, smsg, sdata,
                   pending, recorded, lastRec, scalls>>

\* the thread renames its temporary file to memory.json
SaveReplace(d) ==
    /\ d \in dumps
    /\ dumps' = dumps \ {d}
    /\ ReplaceWith(d)
    /\ spc' = IF spc = "export" THEN "export_detached" ELSE spc
    /\ lastIO' = [kind |-> "replace", locked |-> lock]
    /\ UNCHANGED <<conversations, rows, memory, lock, smsg, sdata, pending, submitted,
                   recorded, lastRec, scalls>>

StoreInit ==
    /\ memory = [interactions |-> <<>>, world |-> 0]
    /\ json_file = [whole |-> TRUE, world |-> 0]
    /\ lock = FALSE
    /\ spc = "idle"
    /\ smsg = "none"
    /\ sdata = [interactions |-> <<>>, world |-> 0]
    /\ pending = 0
    /\ submitted = 0
    /\ dumps = {}
    /\ lastIO = NoIO
    /\ recorded = {}
    /\ lastRec = NoRec
    /\ scalls = 0

----------------------------------------------------------------------------
(* brain._lock (an asyncio.Lock) under the tasks of main.py that take it:   *)
(* a /chat request (auto-diary), an exploration iteration (diary entry,     *)
(* then the movement tick it may drive) and a tick of the movement loop.    *)
(* The event loop runs one task at a time, from one suspension to the next  *)
(* (spc = "run" while a task is inside such a run). `async with` on a free  *)
(* lock takes it without suspending; on a held lock the task suspends until *)
(* a release wakes it.                                                      *)
(* wpc: "upstream" awaiting generate_reply, "ready" scheduled to run,       *)
(* "waiting" suspended in acquire, "locked" inside the block, "held_await"  *)
(* suspended inside the block, "follow" between the exploration's block     *)
(* and its movement tick. An iteration's sleep is its return to "idle".     *)

LockKinds == {"chat", "auto", "move"}

\* whether the block under the lock contains an await
SuspendsInChat(k) == k = "chat"
Suspends(k) == FALSE

\* a request arrives, or a loop's sleep ends: up to the first suspension
LockBegin(p, k) ==
    /\ spc = "idle" /\ wpc[p] = "idle"
    /\ (p = "p2" => wpc["p1"] # "idle")
    /\ wseq <= Cardinality(Procs)
    /\ wseq' = wseq + 1
    /\ wentry' = [wentry EXCEPT ![p] = Entry(k)]
    /\ wpc' = [wpc EXCEPT ![p] = IF k = "move" THEN "ready" ELSE "upstream"]
    /\ UNCHANGED <<diary, logged, presence, mut, lock, spc>>

\* the task is run and reaches `async with brain._lock`
LockAcquire(p) ==
    /\ \/ spc = "idle" /\ wpc[p] \in {"upstream", "ready"}
       \/ spc = "run" /\ wpc[p] = "follow"
    /\ IF lock
       THEN /\ wpc' = [wpc EXCEPT ![p] = "waiting"]
            /\ spc' = "idle"
            /\ lock' = lock
       ELSE /\ wpc' = [wpc EXCEPT ![p] = "locked"]
            /\ spc' = "run"
            /\ lock' = TRUE
    /\ UNCHANGED <<diary, logged, presence, mut, wseq, wentry>>

\* the block: the entry is appended and the diary cut back, or the presence
\* counted; asyncio.create_task(brain._async_save()); the lock is released and
\* the first waiter woken. follow: an exploration iteration goes on to
\* _movement_tick (the movement loop runs and follows); else the run ends
LockSection(p, follow) ==
    /\ \/ spc = "run" /\ wpc[p] = "locked"
       \/ spc = "idle" /\ wpc[p] = "held_await"
    /\ UNCHANGED <<wseq>>
    /\ IF wpc[p] = "locked" /\ Suspends(wentry[p].src)
       THEN /\ wpc' = [wpc EXCEPT ![p] = "held_await"]
            /\ spc' = "idle"
            /\ UNCHANGED <<diary, logged, presence, mut, lock, wentry>>
       ELSE /\ IF wentry[p].src = "move"
               THEN presence' = presence + 1 /\ UNCHANGED <<diary, logged>>
               ELSE /\ diary' = AppendTrim(diary, wentry[p], DiaryCap)
                    /\ logged' = [logged EXCEPT !.diary = Append(@, wentry[p])]
                    /\ presence' = presence
            /\ mut' = [by |-> wentry[p].src, locked |-> lock]
            /\ lock' = FALSE
            /\ LET goes == IF wentry[p].src = "auto" /\ follow THEN "follow" ELSE "idle" IN
               /\ wpc' = [q \in Procs |->
                            IF q = p THEN goes
                            ELSE IF wpc[q] = "waiting" THEN "ready" ELSE wpc[q]]
               /\ spc' = IF goes = "follow" THEN "run" ELSE "idle"
               /\ wentry' = [wentry EXCEPT ![p] =
                               IF goes = "follow" THEN [@ EXCEPT !.src = "move"] ELSE NoEntry]

----------------------------------------------------------------------------
(* _effective_interval (backend/main.py). Seconds are integers; the scale   *)
(* is kept in tenths and the quotient base / scale as a fraction, so that   *)
(* the comparisons of the clamp are exact.                                  *)

\* the values of brain.VIRTUAL_TIME_SCALE, in tenths: -1.0, 0, 0.1 (the floor
\* of the code), 0.5, 1.0 (also the default of getattr when the attribute is
\* absent), 2.5
ScaleTenths == {-10, 0, 1, 5, 10, 25}

\* the arguments base_interval: None (no value in the request body), a value
\* float() rejects, and numbers
BaseValues == {-60, 0, 1, 4, 120, 3600, 40000}
BaseInputs == {[kind |-> "none", val |-> 0], [kind |-> "text", val |-> 0]}
              \cup {[kind |-> "num", val |-> v] : v \in BaseValues}

Frac(n, d) == [num |-> n, den |-> d]
Less(a, b) == a.num * b.den < b.num * a.den

\* base = float(base_interval) if base_interval is not None else 120.0, and
\* 120.0 when float() raises
BaseOf(b) == IF b.kind = "num" THEN b.val ELSE 120

\* max(0.1, float(scale or 1.0)), in tenths
DivisorOf(sc) ==
    LET t == IF sc = 0 THEN 10 ELSE sc IN
    IF 1 > t THEN 1 ELSE t

\* min(3600.0, max(5.0, interval)): Python's max and min return their first
\* argument unless the second is greater (smaller)
ClampFrac(x) ==
    LET lo == IF Less(Frac(5, 1), x) THEN x ELSE Frac(5, 1) IN
    IF Less(lo, Frac(3600, 1)) THEN lo ELSE Frac(3600, 1)

\* _effective_interval(base_interval) with brain.VIRTUAL_TIME_SCALE = sc
effective_interval_at(b, sc) == ClampFrac(Frac(BaseOf(b) * 10, DivisorOf(sc)))

NoInterval == [called |-> FALSE, base |-> [kind |-> "none", val |-> 0], scale |-> 0,
               result |-> Frac(0, 1), same |-> FALSE, prevScale |-> 0, prevResult |-> Frac(0, 1)]
\* the instants, in seconds, at which the age is asked for: around the ends of
\* a minute, an hour, a day and a year of 365 days
Instants == {0, 59, 60, 3599, 3600, 86399, 86400, 31535999, 31536000, 31626061}

\* the birthdates of the world: none, and instants before and after the first calls
AgeBirths == {NoBirth, 0, 60, 86400}

GetVirtualAgeHoursOfTotal(b, t) ==
    LET birth == IF b = NoBirth THEN t ELSE b
        delta == t - birth
        ddays == delta \div 86400
        dsecs == delta % 86400
    IN [years |-> ddays \div 365, days |-> ddays % 365,
        hours |-> delta \div 3600, minutes |-> (dsecs % 3600) \div 60, since |-> birth]

\* GenyBrain.get_virtual_age at the instant t with the birthdate b: delta = now -
\* birth is a timedelta, whose days are the floor of the seconds over 86400 and
\* whose seconds are the remainder; without a birthdate birth is now
get_virtual_age(b, t) ==
    LET birth == IF b = NoBirth THEN t ELSE b
        delta == t - birth
        ddays == delta \div 86400
        dsecs == delta % 86400
    IN [years |-> ddays \div 365, days |-> ddays % 365,
        hours |-> dsecs \div 3600, minutes |-> (dsecs % 3600) \div 60, since |-> birth]

NoAge == [called |-> FALSE, at |-> 0, birth |-> NoBirth, scale |-> 0,
          age |-> get_virtual_age(NoBirth, 0), prevCalled |-> FALSE, prevAt |-> 0,
          prevAge |-> get_virtual_age(NoBirth, 0)]

\* a call of get_virtual_age: it reads brain.memory["world"] and the clock
AgeCall ==
    /\ lastAge' = [called |-> TRUE, at |-> now, birth |-> birthdate, scale |-> scale,
                   age |-> get_virtual_age(birthdate, now),
                   prevCalled |-> lastAge.called, prevAt |-> lastAge.at,
                   prevAge |-> lastAge.age]
    /\ UNCHANGED <<scale, lastInterval>>

\* time passes, to a later instant
Later(t) ==
    /\ t > now
    /\ now' = t

\* the configuration sets the scale
SetScale(sc) ==
    /\ scale' = sc
    /\ scale # sc
    /\ UNCHANGED <<lastInterval, lastAge>>

\* a call of _effective_interval
IntervalCall(b) ==
    /\ lastInterval' =
         [called |-> TRUE, base |-> b, scale |-> scale,
          result |-> effective_interval_at(b, scale),
          same |-> lastInterval.called /\ lastInterval.base = b,
          prevScale |-> lastInterval.scale, prevResult |-> lastInterval.result]
    /\ UNCHANGED <<scale, lastAge>>

\* brain.VIRTUAL_TIME_SCALE is 1.0 and nothing was computed yet
TimeInit ==
    /\ scale = 10
    /\ lastInterval = NoInterval
    /\ lastAge = NoAge

----------------------------------------------------------------------------
(* One iteration of _exploration_loop (backend/main.py) with the limiter    *)
(* and the gate it calls. The diary entry keeps the reply by kind: the      *)
(* string the gate returned (GateResults), or one of the two placeholders   *)
(* of the loop.                                                             *)

\* "(paused due to rate limits)" and "I am reflecting silently ..."
Placeholders == {"paused", "silent"}

\* the strings of the gate that report a failed call: "[Gemini error] Circuit
\* open ...", "[Gemini 401] ...", "[Gemini error] Failed after N attempts: ..."
ErrorTexts == {"circuit_open", "unauthorized", "exhausted"}

\* entry = {"date": now_v, "entry": reply, "insight": reply, "meta": {"source": "auto", ...}}
AutoEntry(reply) == [src |-> "auto", id |-> wseq + 1, date |-> now_virtual, entry |-> reply]

\* the iteration from the reply on: the entry is appended under brain._lock and
\* the diary cut back, the interaction row is written, the task goes to its sleep
ExploreRecord(p, reply) ==
    LET e == AutoEntry(reply) IN
    /\ wseq' = wseq + 1
    /\ diary' = AppendTrim(diary, e, DiaryCap)
    /\ logged' = [logged EXCEPT !.diary = Append(@, e)]
    /\ mut' = [by |-> "auto", locked |-> TRUE]
    /\ rows' = rows + 1
    /\ wpc' = [wpc EXCEPT ![p] = "idle"]

\* the top of an iteration: ai_rl.allow("/exploration/loop"); denied, the
\* placeholder is the reply; admitted, generate_reply is awaited
ExploreTop(p) ==
    /\ wpc[p] = "idle" /\ gpc[p] = "idle"
    /\ wseq < MaxAppends
    /\ LET a == Admit(hits["/exploration/loop"], now) IN
       /\ hits' = [hits EXCEPT !["/exploration/loop"] = a.dq]
       /\ IF a.ok
          THEN /\ GateEnter(p, MaxRetries)
               /\ wpc' = [wpc EXCEPT ![p] = "upstream"]
               /\ UNCHANGED <<diary, wseq, logged, mut, rows>>
          ELSE /\ ExploreRecord(p, "paused")
               /\ UNCHANGED gateVars

\* generate_reply has returned: its string is the reply (generate_reply catches
\* the exceptions of its attempts and returns a string for each failure, so the
\* `except Exception` around the await, with the second placeholder, is not taken)
ExploreReply(p) ==
    /\ wpc[p] = "upstream" /\ gpc[p] = "done"
    /\ ExploreRecord(p, gresult[p])
    /\ GateReturn(p)
    /\ hits' = hits

----------------------------------------------------------------------------
(* The specifications. Each runs one part of the program; the variables of *)
(* the other parts stay as constructed.                                   *)

RLIdle ==
    /\ limit = 0
    /\ hits = [s \in Scopes |-> <<>>]
    /\ admitted = [s \in Scopes |-> <<>>]
    /\ rlCalls = 0
    /\ lastAllow = NoAllow
    /\ lastStats = NoStats

GateIdle ==
    /\ GateInit
    /\ apiKey = TRUE

ChatIdle ==
    /\ ChatInit
    /\ autoDiary = TRUE

WorldIdle == WorldInit

OtherIdle == LoopInit /\ MemInit /\ StoreInit /\ birthdate = NoBirth /\ TimeInit

\* the rate limiter alone
RLAllow == \E s \in Scopes : allow(s) /\ UNCHANGED <<now, limit, lastStats, gateVars, chatVars, worldVars, otherVars>>
RLStats == \E s \in Scopes : stats(s) /\ UNCHANGED <<now, limit, admitted, lastAllow, gateVars, chatVars, worldVars, otherVars>>
RLTick == Tick /\ UNCHANGED <<rlVars, gateVars, chatVars, worldVars, otherVars>>

InitRL == now = 0 /\ RLInit /\ GateIdle /\ ChatIdle /\ WorldIdle /\ OtherIdle
NextRL == RLAllow \/ RLStats \/ RLTick
SpecRL == InitRL /\ [][NextRL]_vars

\* the upstream gate under concurrent callers
\* (a call is taken by the first free task: the tasks are interchangeable)
CallStart ==
    \E p \in Procs : \E mr \in {1, MaxRetries} :
        /\ (p = "p2" => gpc["p1"] # "idle")
        /\ GateEnter(p, mr)
        /\ UNCHANGED <<now, rlVars, chatVars, worldVars, otherVars>>
\* (under concurrent callers a timeout stands for every transient failure of an
\* attempt: the two kinds differ in last_err alone, which only the exhausted string
\* shows; FairGate below draws both)
CoarseOutcomes == Outcomes \ {"error"}
CallAttemptEnd == \E p \in Procs : \E o \in CoarseOutcomes : GateAttemptEnd(p, o) /\ UNCHANGED <<now, rlVars, chatVars, worldVars, otherVars>>
CallWake == \E p \in Procs : GateWake(p) /\ UNCHANGED <<now, rlVars, chatVars, worldVars, otherVars>>
CallReturn == \E p \in Procs : GateReturn(p) /\ UNCHANGED <<now, rlVars, chatVars, worldVars, otherVars>>
\* (the gate reads the clock only as the time since the breaker opened, and only
\* while it is open: time is let pass there, up to just past the recovery timeout)
GateTick ==
    /\ circuit.state = "open" /\ now - circuit.opened_at <= RecoveryTimeout
    /\ Tick
    /\ UNCHANGED <<rlVars, gateVars, chatVars, worldVars, otherVars>>

InitGate == now = 0 /\ GateInit /\ RLIdle /\ ChatIdle /\ WorldIdle /\ OtherIdle
NextGate == CallStart \/ CallAttemptEnd \/ CallWake \/ CallReturn \/ GateTick
SpecGate == InitGate /\ [][NextGate]_vars

\* one call per task with the scheduling the code relies on: asyncio.wait_for ends every
\* attempt within its timeout and asyncio.sleep ends every backoff
FewCallStart == gcalls < Cardinality(Procs) /\ CallStart
FewAttemptEnd == \E p \in Procs : \E o \in Outcomes : GateAttemptEnd(p, o) /\ UNCHANGED <<now, rlVars, chatVars, worldVars, otherVars>>
NextFew == FewCallStart \/ FewAttemptEnd \/ CallWake \/ CallReturn \/ GateTick
FairGate ==
    /\ InitGate /\ [][NextFew]_vars
    /\ \A p \in Procs :
          /\ WF_vars(\E o \in Outcomes : GateAttemptEnd(p, o) /\ UNCHANGED <<now, rlVars, chatVars, worldVars, otherVars>>)
          /\ WF_vars(GateWake(p) /\ UNCHANGED <<now, rlVars, chatVars, worldVars, otherVars>>)

\* the /chat handler under concurrent requests, with the limiter, the gate, the
\* interaction table and the diary
Ext == {"ok", "raise"}
\* the settings of the limiter under which /chat is exercised: disabled, and one
\* request per window (with two requests a larger limit never denies)
ChatLimits == {0, 1}
chatFrame == <<now, limit, admitted, rlCalls, lastAllow, lastStats, autoDiary, feelings,
               wpc, wentry, presence, topkeys, otherVars>>

ReqBegin ==
    \E p \in Procs : \E m \in MsgKinds : ChatBegin(p, m) /\ UNCHANGED chatFrame
ReqDdgDone == \E p \in Procs : \E x \in Ext : ChatDdgDone(p, x) /\ UNCHANGED chatFrame
ReqAttemptEnd ==
    \E p \in Procs : \E o \in CoarseOutcomes :
        /\ chatpc[p] \in {"await_web", "await_rag", "await_brain"}
        /\ GateAttemptEnd(p, o)
        /\ UNCHANGED <<now, rlVars, chatVars, worldVars, otherVars>>
ReqWake ==
    \E p \in Procs :
        /\ chatpc[p] \in {"await_web", "await_rag", "await_brain"}
        /\ GateWake(p)
        /\ UNCHANGED <<now, rlVars, chatVars, worldVars, otherVars>>
ReqGateDone == \E p \in Procs : \E ft \in BOOLEAN : ChatGateDone(p, ft) /\ UNCHANGED chatFrame
ReqClose == \E p \in Procs : ChatClose(p) /\ UNCHANGED chatFrame
ChatTick == now < ChatMaxTime /\ Tick /\ UNCHANGED <<rlVars, gateVars, chatVars, worldVars, otherVars>>

InitChat == now = 0 /\ RLInit /\ limit \in ChatLimits /\ GateInit /\ ChatInit /\ WorldInit
            /\ OtherIdle
NextChat == ReqBegin \/ ReqDdgDone \/ ReqAttemptEnd \/ ReqWake \/ ReqGateDone \/ ReqClose
            \/ ChatTick
SpecChat == InitChat /\ [][NextChat]_vars

\* the /chat handler on empty and blank messages, with and without the RAG branch
BlankBegin ==
    \E p \in Procs : \E m \in BlankKinds : ChatBegin(p, m) /\ UNCHANGED chatFrame
NextBlank == BlankBegin \/ ReqAttemptEnd \/ ReqWake \/ ReqGateDone \/ ReqClose \/ ChatTick
SpecBlank == InitChat /\ [][NextBlank]_vars

\* the world state under its writers
worldFrame == <<now, rlVars, gateVars, autoDiary, chatpc, cmsg, creply, cstore, resp, crow,
                otherVars>>

TaskStart == \E p \in Procs : \E k \in WKinds : WStart(p, k) /\ UNCHANGED worldFrame
TaskAppend == \E p \in Procs : WAppend(p) /\ UNCHANGED worldFrame
TaskEnd == \E p \in Procs : WEnd(p) /\ UNCHANGED worldFrame
Reflection == BrainReflect /\ UNCHANGED worldFrame
Nightly == run_nightly /\ UNCHANGED worldFrame

InitWorld == now = 0 /\ RLIdle /\ GateIdle /\ ChatIdle /\ WorldInit /\ OtherIdle
NextWorld == TaskStart \/ TaskAppend \/ TaskEnd \/ Reflection \/ Nightly
SpecWorld == InitWorld /\ [][NextWorld]_vars

\* the shared document brain.memory under its mutators, one step for each
\* read-modify-write
DocChat == autoDiary /\ wseq < MaxAppends /\ DiaryAdd("chat", TRUE)
           /\ UNCHANGED <<worldFrame, feelings, wpc, wentry, rows, presence, topkeys>>
DocExplore == wseq < MaxAppends /\ DiaryAdd("auto", TRUE)
              /\ UNCHANGED <<worldFrame, feelings, wpc, wentry, rows, presence, topkeys>>
DocReflect == BrainReflect /\ UNCHANGED worldFrame
DocNightly == run_nightly /\ UNCHANGED worldFrame
DocMovement == movement_tick /\ UNCHANGED worldFrame
DocSync == sync_endpoint /\ UNCHANGED worldFrame
DocImport == import_memory /\ UNCHANGED worldFrame

docFrame == <<now, rlVars, gateVars, autoDiary, chatpc, cmsg, creply, cstore, resp, crow,
              loopVars, memVars, storeVars, timeVars>>
DocAge == AgeQuestion /\ UNCHANGED docFrame
DocImportWorld == \E b \in BirthDates \cup {NoBirth} : ImportWorld(b) /\ UNCHANGED docFrame

\* (the memory file read at construction has a world with or without a birthdate)
InitDoc == now = 0 /\ RLIdle /\ GateIdle /\ ChatIdle /\ WorldInit /\ LoopInit /\ MemInit
           /\ StoreInit /\ birthdate \in {NoBirth, 0} /\ TimeInit
NextDoc == DocChat \/ DocExplore \/ DocReflect \/ DocNightly \/ DocMovement \/ DocSync \/ DocImport
           \/ DocAge \/ DocImportWorld
SpecDoc == InitDoc /\ [][NextDoc]_vars

\* the two background loops under concurrent start and stop requests
loopFrame == <<now, limit, admitted, rlCalls, lastAllow, lastStats, gateVars, autoDiary,
               chatpc, cmsg, creply, cstore, resp, crow, feelings, wpc, wentry, topkeys,
               memVars, storeVars, birthdate, timeVars>>
loopWorld == <<diary, wseq, logged, mut, rows, presence, hits>>

\* (a request is taken by the first free handler task: they are interchangeable)
HStart ==
    \E p \in Procs : \E L \in Loops :
        /\ (p = "p2" => hpc["p1"] # "idle")
        /\ StartBegin(p, L)
        /\ UNCHANGED <<loopFrame, loopWorld>>
HStartEnd ==
    \E p \in Procs : \E base \in Bases : \E follow \in BOOLEAN :
        /\ (hreq[p].loop = "exploration" => follow)
        /\ StartEnd(p, base, follow)
        /\ UNCHANGED <<loopFrame, loopWorld>>
HStop ==
    \E p \in Procs : \E L \in Loops :
        /\ (p = "p2" => hpc["p1"] # "idle")
        /\ StopBegin(p, L)
        /\ UNCHANGED <<loopFrame, loopWorld>>
HStopEnd == \E p \in Procs : StopEnd(p) /\ UNCHANGED <<loopFrame, loopWorld>>
HClose == \E p \in Procs : LoopClose(p) /\ UNCHANGED <<loopFrame, loopWorld>>
TCancel ==
    \E L \in Loops : \E i \in DOMAIN tasks[L] :
        TaskCancelled(L, i) /\ UNCHANGED <<loopFrame, loopWorld>>
TTop ==
    \E L \in Loops : \E i \in DOMAIN tasks[L] : \E x \in Ext :
        LoopTop(L, i, x) /\ UNCHANGED loopFrame
TReply ==
    \E i \in DOMAIN tasks["exploration"] : \E x \in Ext :
        LoopReply(i, x) /\ UNCHANGED loopFrame

InitLoop == now = 0 /\ RLIdle /\ GateIdle /\ ChatIdle /\ WorldInit /\ LoopInit /\ MemInit /\ StoreInit /\ birthdate = NoBirth /\ TimeInit
NextLoop == HStart \/ HStartEnd \/ HStop \/ HStopEnd \/ HClose \/ TCancel \/ TTop \/ TReply
SpecLoop == InitLoop /\ [][NextLoop]_vars

\* the memory module alone
memFrame == <<rlVars, gateVars, autoDiary, chatpc, cmsg, creply, cstore, resp, crow,
              worldVars, loopVars, storeVars, birthdate, timeVars>>
Save == \E m \in Msgs : MemSave(m, "r1") /\ UNCHANGED <<now, memFrame>>
Get == \E n \in 0..MaxN : MemGet(n) /\ UNCHANGED <<now, memFrame>>
Load == \E snap \in Snapshots : MemLoad(snap) /\ UNCHANGED <<now, memFrame>>
MemTick == now < MemMaxTime /\ Tick /\ UNCHANGED <<memFrame, rows, memVars>>

InitMem == now = 0 /\ RLIdle /\ GateIdle /\ ChatIdle /\ WorldIdle /\ LoopInit /\ MemInit /\ StoreInit /\ birthdate = NoBirth /\ TimeInit
NextMem == Save \/ Get \/ Load \/ MemTick
SpecMem == InitMem /\ [][NextMem]_vars

\* the two backends of the interactions and the saves of brain.memory
storeFrame == <<now, rlVars, gateVars, autoDiary, chatpc, cmsg, creply, cstore, resp, crow,
                worldVars, loopVars, lastGet, lastLoad, mcalls, birthdate, timeVars>>
StIdentity == \E m \in Msgs : ChatIdentity(m) /\ UNCHANGED storeFrame
StIdentityRecord == \E tf \in BOOLEAN : ChatIdentityRecord(tf) /\ UNCHANGED storeFrame
StPlain == \E m \in Msgs : \E tf \in BOOLEAN : ChatPlain(m, tf) /\ UNCHANGED storeFrame
StReplace == \E jf \in BOOLEAN : RecordReplace(jf) /\ UNCHANGED storeFrame
StDiary == ChatDiary /\ UNCHANGED storeFrame
StTick == StoreMovementTick /\ UNCHANGED storeFrame
StUnlock == Unlock /\ UNCHANGED storeFrame
StSync == StoreSync /\ UNCHANGED storeFrame
StExportOpen == ExportOpen /\ UNCHANGED storeFrame
StExportWrite == \E x \in Ext : ExportWrite(x) /\ UNCHANGED storeFrame
StSubmit == SaveSubmit /\ UNCHANGED storeFrame
StDump == \E x \in Ext : SaveDump(x) /\ UNCHANGED storeFrame
StRename == \E d \in dumps : SaveReplace(d) /\ UNCHANGED storeFrame

InitStore == now = 0 /\ RLIdle /\ GateIdle /\ ChatIdle /\ WorldIdle /\ LoopInit /\ MemInit /\ StoreInit /\ birthdate = NoBirth /\ TimeInit
NextStore == StIdentity \/ StIdentityRecord \/ StPlain \/ StReplace \/ StDiary \/ StTick
             \/ StUnlock \/ StSync \/ StExportOpen \/ StExportWrite \/ StSubmit \/ StDump
             \/ StRename
SpecStore == InitStore /\ [][NextStore]_vars

\* _effective_interval on every base and scale
intervalFrame == <<now, rlVars, gateVars, chatVars, worldVars, loopVars, memVars, storeVars,
                   birthdate>>
IvScale == \E sc \in ScaleTenths : SetScale(sc) /\ UNCHANGED intervalFrame
IvCall == \E b \in BaseInputs : IntervalCall(b) /\ UNCHANGED intervalFrame

InitInterval == now = 0 /\ RLIdle /\ GateIdle /\ ChatIdle /\ WorldIdle /\ LoopInit /\ MemInit
                /\ StoreInit /\ birthdate = NoBirth /\ scale \in ScaleTenths
                /\ lastInterval = NoInterval /\ lastAge = NoAge
NextInterval == IvScale \/ IvCall
SpecInterval == InitInterval /\ [][NextInterval]_vars

\* get_virtual_age on every birthdate, instant and scale
ageFrame == <<rlVars, gateVars, chatVars, worldVars, loopVars, memVars, storeVars, birthdate>>
AgeAsk == AgeCall /\ UNCHANGED <<now, ageFrame>>
AgeLater == \E t \in Instants : Later(t) /\ UNCHANGED <<ageFrame, timeVars>>

InitAge == now \in Instants /\ RLIdle /\ GateIdle /\ ChatIdle /\ WorldIdle /\ LoopInit /\ MemInit
           /\ StoreInit /\ birthdate \in AgeBirths /\ scale \in ScaleTenths
           /\ lastInterval = NoInterval /\ lastAge = NoAge
NextAge == AgeAsk \/ AgeLater
SpecAge == InitAge /\ [][NextAge]_vars

\* the tasks that take brain._lock, and the scheduling the code relies on: the
\* event loop runs every task that is ready, an awaited generate_reply returns
\* (asyncio.wait_for bounds every attempt) and a run goes on to its next suspension
lockFrame == <<now, rlVars, gateVars, chatVars, feelings, topkeys, loopVars, memVars,
               birthdate, timeVars>>
lockStore == <<memory, json_file, smsg, sdata, pending, submitted, dumps, lastIO, recorded,
               lastRec, scalls>>
LkBegin == \E p \in Procs : \E k \in LockKinds : LockBegin(p, k) /\ UNCHANGED <<lockFrame, lockStore>>
LkAcquire == \E p \in Procs : LockAcquire(p) /\ UNCHANGED <<lockFrame, lockStore>>
LkSection ==
    \E p \in Procs : \E follow \in BOOLEAN : LockSection(p, follow) /\ UNCHANGED <<lockFrame, lockStore>>

InitLock == now = 0 /\ RLIdle /\ GateIdle /\ ChatIdle /\ WorldInit /\ OtherIdle
NextLock == LkBegin \/ LkAcquire \/ LkSection
SpecLock == InitLock /\ [][NextLock]_vars
FairLock ==
    /\ SpecLock
    /\ \A p \in Procs :
          /\ WF_vars(LockAcquire(p) /\ UNCHANGED <<lockFrame, lockStore>>)
          /\ WF_vars(\E follow \in BOOLEAN : LockSection(p, follow) /\ UNCHANGED <<lockFrame, lockStore>>)

\* the exploration task, iteration after iteration, with the limiter and the gate
exploreFrame == <<now, limit, admitted, rlCalls, lastAllow, lastStats, autoDiary, chatpc, cmsg,
                  creply, cstore, resp, crow, feelings, wentry, presence, topkeys, otherVars>>
Explorer == "p1"
XTop == ExploreTop(Explorer) /\ UNCHANGED exploreFrame
XAttemptEnd ==
    \E o \in Outcomes :
        /\ wpc[Explorer] = "upstream"
        /\ GateAttemptEnd(Explorer, o)
        /\ UNCHANGED <<now, rlVars, chatVars, worldVars, otherVars>>
XWake ==
    /\ wpc[Explorer] = "upstream"
    /\ GateWake(Explorer)
    /\ UNCHANGED <<now, rlVars, chatVars, worldVars, otherVars>>
XReply == ExploreReply(Explorer) /\ UNCHANGED exploreFrame
XTick == now < ChatMaxTime /\ Tick /\ UNCHANGED <<rlVars, gateVars, chatVars, worldVars, otherVars>>

InitExplore == now = 0 /\ RLInit /\ limit \in ChatLimits /\ GateInit /\ ChatIdle /\ WorldInit /\ OtherIdle
NextExplore == XTop \/ XAttemptEnd \/ XWake \/ XReply \/ XTick
SpecExplore == InitExplore /\ [][NextExplore]_vars

----------------------------------------------------------------------------
(* C1: for every scope, with limit > 0, the calls of allow that returned    *)
(* True within any interval [T - window, T] number at most limit; an allow  *)
(* made while limit admitted timestamps are inside the window returns       *)
(* False; and the count stats reports never exceeds limit.                  *)
C1_RateLimit ==
    limit > 0 =>
        /\ \A s \in Scopes : \A T \in 0..now :
               CountIn(admitted[s], T - Window, T) <= limit
        /\ (lastAllow.scope # "none" /\ lastAllow.before >= limit) => lastAllow.result = FALSE
        /\ lastStats.scope # "none" =>
               lastStats.stats.count <= limit /\ lastStats.stats.limit = limit

\* the scope was full, a call was denied, stats reports count = limit, and
\* earlier timestamps had already expired and been replaced
C1_Witness ==
    /\ limit > 0
    /\ lastAllow.scope # "none" /\ lastAllow.result = FALSE /\ lastAllow.before = limit
    /\ lastStats.scope = lastAllow.scope /\ lastStats.stats.count = limit
    /\ Len(admitted[lastAllow.scope]) > limit

----------------------------------------------------------------------------
(* C2: right after fail_threshold consecutive recorded failures the breaker *)
(* is OPEN, and a generate call that started while it was OPEN with no more *)
(* than recovery_timeout passed since it opened returned the circuit-open   *)
(* error without starting any upstream attempt.                             *)
C2_OpenRejects ==
    /\ (lastEvent = "failure" /\ consec >= FailThreshold) => circuit.state = "open"
    /\ \A p \in Procs :
           (gpc[p] # "idle" /\ gstart[p].state = "open" /\ gstart[p].since <= RecoveryTimeout)
               => (gresult[p] = "circuit_open" /\ ginvoked[p] = 0 /\ gpc[p] = "done")

\* exactly fail_threshold failures in a row opened the breaker and the next call was rejected
C2_Witness ==
    /\ lastEvent = "failure" /\ consec = FailThreshold /\ circuit.state = "open"
    /\ \E p \in Procs : gstart[p].state = "open" /\ gresult[p] = "circuit_open" /\ ginvoked[p] = 0

(* C3: while the breaker is HALF_OPEN at most one call has been let through *)
(* whose outcome is still pending (every other arriving call is rejected);  *)
(* a recorded success leaves the breaker CLOSED and a failure recorded at   *)
(* or above the threshold leaves it OPEN, opened at the time of the failure.*)
C3_SingleTrial ==
    /\ circuit.state = "half_open" => Cardinality(trial) <= 1
    /\ lastEvent = "success" => circuit.state = "closed"
    /\ (lastEvent = "failure" /\ circuit.fail_count >= FailThreshold)
           => (circuit.state = "open" /\ circuit.opened_at <= now)

\* a request the limiter admitted and whose handler has returned
Answered(p) == chatpc[p] = "done" /\ resp[p].code # 429

(* C4: every /chat request the limiter admitted has exactly one interaction  *)
(* row in the table once it is answered, never none and never two, as long  *)
(* as the store did not fail.                                               *)
C4_ExactlyOneRow ==
    \A p \in Procs : (Answered(p) /\ cstore[p] # "failed") => Len(crow[p]) = 1

\* the last n elements of a sequence, in their order
LastN(seq, n) == IF Len(seq) > n THEN SubSeq(seq, Len(seq) - n + 1, Len(seq)) ELSE seq

(* C5: between operations each capped sequence of the world state holds at  *)
(* most its cap, whichever writers ran, and holds exactly the cap most      *)
(* recently appended entries in their order once more than cap entries were *)
(* appended.                                                                *)
C5_Capped ==
    /\ Len(diary) <= DiaryCap
    /\ Len(feelings) <= FeelingsCap
    /\ diary = LastN(logged.diary, DiaryCap)
    /\ feelings = LastN(logged.feelings, FeelingsCap)

\* how often an entry occurs in a sequence
Occurs(seq, e) == Cardinality({i \in DOMAIN seq : seq[i] = e})

\* the sequence a task's entry goes to
Target(e) == IF e.src = "feeling" THEN feelings ELSE diary

(* C6: when the tasks that each append one entry under the lock have all    *)
(* completed, and the appends stayed within the cap, every task's entry is  *)
(* in its sequence exactly once and intact, and nothing appended before or  *)
(* in between was lost, whatever the interleaving.                          *)
C6_NoLostAppend ==
    ((\A p \in Procs : wpc[p] = "done")
     /\ Len(logged.diary) <= DiaryCap /\ Len(logged.feelings) <= FeelingsCap) =>
        /\ \A p \in Procs : Occurs(Target(wentry[p]), wentry[p]) = 1
        /\ diary = logged.diary
        /\ feelings = logged.feelings

\* both tasks wrote to the diary, the one that started second appended first
C6_Witness ==
    /\ \A p \in Procs : wpc[p] = "done" /\ wentry[p].src \in {"chat", "auto"}
    /\ wentry["p1"].id < wentry["p2"].id
    /\ \E i, j \in DOMAIN diary : i < j /\ diary[i] = wentry["p2"] /\ diary[j] = wentry["p1"]
    /\ Len(diary) = Len(logged.diary)

(* C7: for a non-empty message, whatever the upstream did, the handler      *)
(* returns a body (HTTP 200, no error escapes) whose reply is a non-empty   *)
(* string.                                                                  *)
C7_NonEmptyReply ==
    \A p \in Procs :
        (Answered(p) /\ cmsg[p] # "empty") =>
            /\ resp[p].code = 200
            /\ resp[p].status \in {"ok", "error"}
            /\ resp[p].reply \in NonEmptyReplies

\* the upstream produced nothing usable (None or a blank text) and the reply is the apology
C7_Witness ==
    \E p \in Procs :
        /\ Answered(p) /\ cmsg[p] # "empty"
        /\ creply[p] \in {"none", "raw_empty"}
        /\ resp[p].reply = "apology"

\* the limiter's count of the scope: the hits that are not older than the window
InWindow(scope) == Cardinality({i \in DOMAIN hits[scope] : hits[scope][i] >= now - Window})

(* C8: a /chat request that arrives while the limiter denies the scope is   *)
(* answered 429 with status "rate_limited" and the limiter's stats, and the *)
(* step changes nothing else: no gate call, the breaker, the table and the  *)
(* diary are as before.                                                     *)
C8_DenyFrame ==
    [][\A p \in Procs :
          (chatpc[p] = "idle" /\ chatpc'[p] # "idle"
           /\ limit > 0 /\ InWindow("/chat") >= limit) =>
              /\ chatpc'[p] = "done"
              /\ resp'[p].code = 429
              /\ resp'[p].status = "rate_limited"
              /\ resp'[p].reply = "absent"
              /\ resp'[p].stats.limit = limit
              /\ resp'[p].stats.count = InWindow("/chat")
              /\ resp'[p].stats.window_seconds = Window
              /\ UNCHANGED <<gateVars, rows, crow, cstore, diary, feelings, logged>>]_vars

\* a request has been answered 429 while the other one, admitted, is still being served
C8_Witness ==
    \E p, q \in Procs :
        /\ chatpc[p] = "done" /\ resp[p].code = 429 /\ resp[p].stats.count >= 1
        /\ chatpc[q] \in {"await_rag", "await_brain", "await_web"}

(* C9: the endpoint answers HTTP 502 when the upstream reply is an          *)
(* authentication failure and HTTP 503 when it is another upstream error.   *)
C9_UpstreamStatus ==
    \A p \in Procs :
        chatpc[p] = "done" =>
            /\ (creply[p] = "raw_401" => resp[p].code = 502)
            /\ (creply[p] = "raw_error" => resp[p].code = 503)

C11_LockedMutation == mut.locked


\* C12: an attempt that fails with an authentication marker in the error text ends
\* the call at once with the Unauthorized result: no backoff sleep and no further
\* upstream attempt by that call, whatever max_retries; an attempt that fails in any
\* other way (timeout included) goes on to the backoff sleep, and the sleep ends in
\* the next attempt of the range or, when the range is used up, in the exhausted result
AttemptFailed(p) ==
    gpc[p] = "attempt" /\ gpc'[p] # "attempt" /\ gresult'[p] \notin {"text", "empty"}
C12_AuthNoRetry ==
    [][\A p \in Procs :
         /\ (AttemptFailed(p) /\ last_err'[p] = "auth")
                => /\ gpc'[p] = "done" /\ gresult'[p] = "unauthorized"
                   /\ ginvoked'[p] = ginvoked[p]
         /\ (AttemptFailed(p) /\ last_err'[p] # "auth")
                => /\ last_err'[p] \in {"timeout", "error"}
                   /\ gpc'[p] = "sleep" /\ gattempt'[p] = gattempt[p]
         /\ (gpc[p] = "sleep" /\ gpc'[p] # "sleep")
                => \/ /\ gpc'[p] = "attempt" /\ gattempt'[p] = gattempt[p] + 1
                      /\ gattempt'[p] < gmax[p] /\ ginvoked'[p] = ginvoked[p] + 1
                   \/ /\ gpc'[p] = "done" /\ gresult'[p] = "exhausted"
                      /\ gattempt[p] + 1 = gmax[p] /\ ginvoked'[p] = ginvoked[p]
         /\ (gpc[p] = "done" /\ gpc'[p] # "done")
                => gpc'[p] = "idle" /\ ginvoked'[p] = 0
    ]_vars

\* a call with max_retries = 3 that ended Unauthorized after its first attempt
C12_Witness ==
    \E p \in Procs :
        /\ gpc[p] = "done" /\ gresult[p] = "unauthorized" /\ last_err[p] = "auth"
        /\ gmax[p] = MaxRetries /\ gattempt[p] = 0 /\ ginvoked[p] = 1
\* C13: a call with max_retries = n >= 1 starts at most n upstream attempts and
\* ends; a successful attempt ends it with that attempt's text and nothing is
\* attempted after it; the exhausted result is given only after n attempts, all
\* failed, and last_err is then a transient error (a timeout or another error)
Ended(p) == gpc[p] = "done"
C13_Bounded ==
    \A p \in Procs :
        /\ (gpc[p] # "idle" /\ gmax[p] >= 1) => (ginvoked[p] <= gmax[p] /\ ginvoked[p] <= gattempt[p] + 1)
        /\ gresult[p] \in {"text", "empty"} => Ended(p)
        /\ gresult[p] = "exhausted"
              => /\ Ended(p) /\ ginvoked[p] = gmax[p]
                 /\ last_err[p] \in {"timeout", "error"}
C13_Terminates ==
    /\ []C13_Bounded
    /\ \A p \in Procs : (gpc[p] = "attempt") ~> Ended(p)

\* a call with max_retries = 3 that succeeded at its second attempt, and one that
\* was exhausted after three
C13_Witness ==
    /\ \E p \in Procs : gmax[p] = MaxRetries /\ gresult[p] = "text" /\ ginvoked[p] = 2
                          /\ last_err[p] = "timeout"
    /\ \E p \in Procs : gmax[p] = MaxRetries /\ gresult[p] = "exhausted" /\ ginvoked[p] = 3
\* C14: without an API credential the public generate operation ends at once in the
\* MissingCredential error ("[Gemini error] Missing API key ..."), having started no
\* upstream attempt and no backoff sleep and having left the circuit breaker as it was
C14_MissingCredential ==
    \A p \in Procs :
        (~apiKey /\ gpc[p] # "idle")
            => /\ gpc[p] = "done" /\ ginvoked[p] = 0
               /\ circuit = [state |-> "closed", fail_count |-> 0, opened_at |-> 0]
               /\ gresult[p] = "missing_credential"
\* the tasks of loop L that are not done
AliveTasks(L) == {i \in DOMAIN tasks[L] : ~done(tasks[L][i])}

\* handler task p ends a start request at this step
StartEnds(p) == hreq[p].kind = "start" /\ hpc[p] = "json" /\ hpc'[p] = "done"

\* C15: a start request on a loop that is RUNNING answers "already_running" and
\* changes nothing; on a loop that is not, it sets running, records the start time
\* and the interval, launches one task and answers "started"; and under every
\* interleaving of start and stop requests each loop has at most one task alive
C15_StartOnce ==
    /\ [](\A L \in Loops : Cardinality(AliveTasks(L)) <= 1)
    /\ [][\A p \in Procs : StartEnds(p) =>
             LET L == hreq[p].loop IN
             IF loop_state[L].running
             THEN /\ hresp'[p] = "already_running"
                  /\ UNCHANGED <<loop_state, loop_task, tasks>>
             ELSE /\ hresp'[p] = "started"
                  /\ loop_state'[L].running
                  /\ loop_state'[L].started_at = now
                  /\ \E base \in Bases :
                        loop_state'[L].interval_seconds = effective_interval(L, base)
                  /\ Len(tasks'[L]) = Len(tasks[L]) + 1
                  /\ Cardinality({i \in DOMAIN tasks'[L] : ~done(tasks'[L][i])}) = 1
       ]_vars

\* handler task p ends a stop request at this step
StopEnds(p) == hreq'[p].kind = "stop" /\ hpc[p] # "done" /\ hpc'[p] = "done"

\* C16: a stop request on a running loop always completes and answers "stopped":
\* the task it cancelled is done, the handle is cleared, and the cancellation error
\* of the awaited task is swallowed
C16_StopCompletes ==
    [][\A p \in Procs : StopEnds(p) =>
          /\ hresp'[p] = "stopped"
          /\ loop_task'[hreq'[p].loop] = 0
          /\ hwait[p] # 0 => done(tasks'[hreq'[p].loop][hwait[p]])
      ]_vars

\* loop task i of L goes on running at this step: it starts an iteration or
\* finishes one
TaskRuns(L, i) ==
    /\ i \in DOMAIN tasks[L]
    /\ tasks'[L][i].pc # tasks[L][i].pc
    /\ tasks'[L][i].pc \in {"upstream", "sleep"}

\* C17: once stop has run, the loop starts no further iteration and produces
\* nothing until the next start: every step in which a loop task goes on, every new
\* diary entry, interaction row and run is made while the loop's running flag is
\* set, by the task of the handle, with no cancellation pending; and every
\* presence tick while the movement loop's flag is set
C17_NothingAfterStop ==
    [][/\ \A L \in Loops : \A i \in DOMAIN tasks[L] :
             TaskRuns(L, i) => /\ loop_state[L].running
                               /\ i = loop_task[L]
                               /\ ~tasks[L][i].must_cancel
       /\ (diary' # diary \/ rows' # rows
              \/ loop_state'["exploration"].runs > loop_state["exploration"].runs)
            => loop_state["exploration"].running
       /\ presence' # presence => loop_state["movement"].running
      ]_vars

\* a stop came while the exploration task was inside an iteration, after an
\* earlier iteration of it had written to the diary
C17_Witness ==
    /\ ~loop_state["exploration"].running
    /\ diary # <<>>
    /\ \E i \in DOMAIN tasks["exploration"] :
          tasks["exploration"][i].pc = "cancelled"
    /\ \E p \in Procs : hreq[p].kind = "stop" /\ hreq[p].loop = "exploration" /\ hpc[p] = "done"

\* C18: an exception inside one iteration does not end the loop: a task whose last
\* iteration raised is in its sleep or inside the iteration after it, and when it
\* wakes from that sleep with the running flag set and no cancellation pending it
\* goes on with the next iteration
C18_ExceptionKeepsLoop ==
    /\ [](\A L \in Loops : \A i \in DOMAIN tasks[L] :
            tasks[L][i].raised => tasks[L][i].pc \in {"sleep", "upstream"})
    /\ [][\A L \in Loops : \A i \in DOMAIN tasks[L] :
            (tasks[L][i].pc = "sleep" /\ tasks[L][i].raised /\ tasks'[L][i] # tasks[L][i]
              /\ loop_state[L].running /\ ~tasks[L][i].must_cancel)
                => \/ tasks'[L][i].pc = "upstream"
                   \/ tasks'[L][i].pc = "sleep" /\ ~tasks'[L][i].must_cancel
                   \/ tasks'[L][i] = [tasks[L][i] EXCEPT !.must_cancel = TRUE]
       ]_vars

\* the exploration task is inside the iteration that follows one that raised
C18_Witness ==
    \E i \in DOMAIN tasks["exploration"] :
        /\ tasks["exploration"][i].pc = "upstream" /\ tasks["exploration"][i].raised
        /\ loop_state["exploration"].running
\* the rows n_last of a table, oldest first
Newest(table, k) == SubSeq(table, Len(table) - k + 1, Len(table))

\* C19: get_last_n(n) returns exactly the min(n, total) most recently inserted
\* interactions, oldest first
C19_LastN ==
    lastGet.asked =>
        LET k == IF lastGet.n < lastGet.total THEN lastGet.n ELSE lastGet.total
            want == Newest(SubSeq(conversations, 1, lastGet.total), k)
        IN /\ Len(lastGet.rows) = k
           /\ \A i \in 1..k : lastGet.rows[i] = RowDict(want[i])

\* two of three rows were asked for, the rows differ
C19_Witness ==
    /\ lastGet.asked /\ lastGet.n = 2 /\ lastGet.total = 3
    /\ lastGet.rows[1] # lastGet.rows[2]

\* C20: save_memory_dict inserts an interaction only when the table has no row
\* with its (timestamp, message), and loading the same snapshot a second time
\* inserts no row
C20_LoadTwice ==
    lastLoad.asked =>
        LET before == lastLoad.before
            after == lastLoad.after
        IN /\ Len(after) >= Len(before)
           /\ SubSeq(after, 1, Len(before)) = before
           /\ \A i \in (Len(before) + 1)..Len(after) :
                 ~HasRow(SubSeq(after, 1, i - 1), after[i].timestamp, after[i].user_message)
           /\ lastLoad.again => after = before

\* C21: every operation that writes memory.json replaces it atomically: at every
\* point of every execution, an interrupted write included, the file holds a
\* complete document
C21_AtomicReplace == json_file.whole

\* no save is scheduled, handed to the executor or between its dump and its rename,
\* and no handler is in its synchronous section
Quiet == spc = "idle" /\ pending = 0 /\ submitted = 0 /\ dumps = {}

\* the interaction (m, reply) has a row in the table / an entry in the document
InTable(table, m) ==
    \E i \in DOMAIN table : table[i].user_message = m /\ table[i].geny_reply = "r1"
InDoc(doc, m) ==
    \E i \in DOMAIN doc : doc[i].message = m /\ doc[i].reply = "r1"

\* C22: once save_interaction has returned and every pending save has completed,
\* the interaction is in the table and in the document memory.json, and it still is
\* after any later save of the world state by a request or a background loop
C22_StaysRecorded ==
    (Quiet /\ json_file.whole) =>
        \A m \in recorded : InTable(conversations, m) /\ InDoc(json_doc, m)

\* save_interaction returns at this step
RecordReturns == spc # "recorded" /\ spc' = "recorded"

\* C23: when exactly one of the two backends fails during save_interaction, the
\* interaction is written to the other one
C23_OneBackendSuffices ==
    [][RecordReturns =>
          /\ (lastRec'.table = "failed" /\ lastRec'.doc # "failed")
                => InDoc(json_doc', lastRec'.message)
          /\ (lastRec'.doc = "failed" /\ lastRec'.table # "failed")
                => InTable(conversations', lastRec'.message)
      ]_vars

\* C30: brain._lock is released before the save of the changed document is
\* scheduled, and no save, synchronous or in the background, executes while the lock
\* is held
C30_SaveOutsideLock == lastIO.kind # "none" => ~lastIO.locked

\* C24: a /chat request with an empty or blank message that the limiter admits is
\* answered at once with the fixed clarification reply, and the upstream gate is not
\* contacted: no attempt is started and the circuit breaker is as before
C24_BlankNoUpstream ==
    [][\A p \in Procs :
          (chatpc[p] = "idle" /\ chatpc'[p] # "idle" /\ cmsg'[p] \in BlankKinds
           /\ resp'[p].code # 429) =>
              /\ chatpc'[p] = "done"
              /\ resp'[p].reply = "clarify" /\ resp'[p].status = "ok"
              /\ UNCHANGED gateVars
      ]_vars

\* C25: an admitted /chat request that is neither a web search nor answered
\* through the vector store, and for which the brain's generate_reply returned a
\* non-empty string, is answered HTTP 200 with that string unchanged as reply and
\* status "ok"
C25_ReplyPassedOn ==
    \A p \in Procs :
        (Answered(p) /\ cmsg[p] \in {"empty", "local", "upstream"}
         /\ creply[p] \in NonEmptyReplies) =>
            /\ resp[p].code = 200
            /\ resp[p].status = "ok"
            /\ resp[p].reply = creply[p]

\* the brain passed on an upstream text in one request and its fallback in the
\* other, the store failed for one of them
C25_Witness ==
    \E p, q \in Procs :
        /\ Answered(p) /\ cmsg[p] = "upstream" /\ creply[p] = "formatted"
        /\ resp[p].reply = "formatted" /\ resp[p].status = "ok"
        /\ Answered(q) /\ cmsg[q] = "upstream" /\ creply[q] = "out"
        /\ resp[q].reply = "out"
        /\ cstore[q] = "failed"

\* C26: the birthdate of the world state is written at most once: once it has a
\* value no operation (chat replies, age questions, background loops, nightly run,
\* admin import) changes it
C26_BirthdateOnce ==
    [][birthdate # NoBirth => birthdate' = birthdate]_vars

\* the changes of state the breaker's state machine has
BreakerMoves ==
    {<<"closed", "open">>, <<"open", "half_open">>, <<"half_open", "closed">>,
     <<"half_open", "open">>}

\* C27: the breaker changes state only along CLOSED -> OPEN, OPEN -> HALF_OPEN
\* (after recovery_timeout), HALF_OPEN -> CLOSED and HALF_OPEN -> OPEN, under any
\* interleaving of concurrent calls; it never goes from OPEN to CLOSED directly
C27_BreakerMoves ==
    [][circuit'.state # circuit.state =>
          /\ <<circuit.state, circuit'.state>> \in BreakerMoves
          /\ circuit.state = "open" => now - circuit.opened_at > RecoveryTimeout
      ]_vars

\* C28: the breaker leaves CLOSED only when the last fail_threshold recorded
\* outcomes were all failures: a recorded success sets the failure counter to 0, the
\* counter is the number of failures recorded since, and while the breaker is
\* CLOSED it is below fail_threshold
C28_ConsecutiveFailures ==
    /\ [](/\ circuit.fail_count = consec
          /\ lastEvent = "success" => circuit.fail_count = 0
          /\ circuit.state = "closed" => consec < FailThreshold)
    /\ [][(circuit.state = "closed" /\ circuit'.state # "closed")
             => (circuit'.state = "open" /\ lastEvent' = "failure" /\ consec' = FailThreshold)
         ]_vars

\* two failures, a success, two more failures: the breaker is still CLOSED
C28_Witness ==
    /\ circuit.state = "closed" /\ consec = FailThreshold - 1 /\ lastEvent = "failure"
    /\ \E p \in Procs : gpc[p] = "done" /\ gresult[p] = "text" /\ ginvoked[p] = MaxRetries

\* the tasks whose attempt ends at this step
AttemptEnds == {p \in Procs : gpc[p] = "attempt" /\ gpc'[p] # "attempt"}

\* C29: every upstream attempt updates the breaker exactly once, a successful one
\* by one record_success and a failed one (timeout, transient error, authentication
\* error) by one record_failure; nothing else changes the counter, and a call
\* rejected for an open circuit or for a missing credential leaves the breaker as
\* it was
C29_OneUpdatePerAttempt ==
    [][/\ \A p \in AttemptEnds :
             IF gresult'[p] \in {"text", "empty"}
             THEN circuit'.fail_count = 0 /\ circuit'.state = "closed"
             ELSE /\ last_err'[p] \in {"timeout", "error", "auth"}
                  /\ circuit'.fail_count = circuit.fail_count + 1
       /\ AttemptEnds = {} => circuit'.fail_count = circuit.fail_count
       /\ \A p \in Procs :
             (gpc[p] = "idle" /\ gpc'[p] = "done")
                => (gresult'[p] \in {"circuit_open", "echo"} /\ circuit' = circuit)
      ]_vars

\* a call whose three attempts all failed has updated the breaker three times, and
\* the call that found it open afterwards not at all
C29_Witness ==
    \E p, q \in Procs :
        /\ gpc[p] = "done" /\ gresult[p] = "exhausted" /\ ginvoked[p] = MaxRetries
        /\ last_err[p] = "error"
        /\ gpc[q] = "done" /\ gresult[q] = "circuit_open" /\ ginvoked[q] = 0
        /\ circuit.fail_count = MaxRetries /\ circuit.state = "open"
----------------------------------------------------------------------------
\* allow(scope) made at time T on the deque dq would admit
AdmissibleAt(dq, T) == Len(prune(dq, T)) < limit

\* allow(s) was called in this step
AllowStep(s) == lastAllow' # lastAllow /\ lastAllow'.scope = s

\* allow(s) was called in this step and returned False
DeniedStep(s) == limit > 0 /\ AllowStep(s) /\ lastAllow'.result = FALSE

(* C31: an allow(scope) that returns False appends nothing: the scope's     *)
(* window after the call is the window before it with the expired           *)
(* timestamps purged, the other scopes' windows are untouched, and at every *)
(* later time the scope is admissible exactly when it would have been       *)
(* without the denied call.                                                 *)
C31_DeniedAppendsNothing ==
    [][\A s \in Scopes :
          DeniedStep(s) =>
              /\ hits'[s] = prune(hits[s], now)
              /\ \A r \in Scopes \ {s} : hits'[r] = hits[r]
              /\ \A T \in now..(MaxTime + Window + 1) :
                     AdmissibleAt(hits'[s], T) <=> AdmissibleAt(hits[s], T)]_vars

\* a scope was filled, became admissible again when its timestamps expired,
\* was filled again, and the last call on it was denied with the window full
C31_Witness ==
    /\ limit > 0
    /\ lastAllow.scope # "none" /\ lastAllow.result = FALSE
    /\ lastStats.scope = "none"
    /\ Len(hits[lastAllow.scope]) = limit
    /\ Len(admitted[lastAllow.scope]) > limit

----------------------------------------------------------------------------
\* no allow(s) has admitted since the last stats call
NoneAdmittedSince(s) ==
    \A i \in DOMAIN admitted[s] : admitted[s][i] <= lastStats.at

(* C32: reset_in_seconds is 0 when the window is empty, and when stats      *)
(* found the scope full, an allow(scope) made once reset_in_seconds have    *)
(* passed since the stats call, with no admission in between, purges the    *)
(* oldest timestamp and admits.                                             *)
C32_ResetIn ==
    /\ [](lastStats.stats.count = 0 => lastStats.stats.reset_in_seconds = 0)
    /\ [][\A s \in Scopes :
            (/\ limit > 0
             /\ lastStats.scope = s
             /\ lastStats.stats.count >= limit
             /\ NoneAdmittedSince(s)
             /\ now >= lastStats.at + lastStats.stats.reset_in_seconds
             /\ AllowStep(s)) =>
                /\ lastAllow'.result = TRUE
                /\ Head(hits[s]) # Head(hits'[s])]_vars
----------------------------------------------------------------------------
\* the entry the iteration of this step appended to the diary
Written == diary'[Len(diary')]

(* C33: an exploration iteration that the limiter denies leaves the gate    *)
(* untouched and records the rate-limit placeholder; an iteration whose     *)
(* upstream call failed (circuit open, authentication failure, retries      *)
(* exhausted) writes a diary entry that holds a placeholder, not the error  *)
(* text of the gate.                                                        *)
C33_PlaceholderOnFailure ==
    [][/\ (wpc[Explorer] = "idle" /\ wseq' # wseq) =>
              (UNCHANGED gateVars /\ Written.entry = "paused")
       /\ (wpc[Explorer] = "upstream" /\ wseq' # wseq /\ gresult[Explorer] \in ErrorTexts) =>
              (Written.entry \in Placeholders /\ Written.entry \notin ErrorTexts)]_vars

\* the denied iteration alone
DeniedIterationFrame ==
    [][(wpc[Explorer] = "idle" /\ wseq' # wseq) =>
          (UNCHANGED gateVars /\ Written.entry = "paused")]_vars
----------------------------------------------------------------------------
\* the result lies in [5, 3600]
InRange(x) == ~Less(x, Frac(5, 1)) /\ ~Less(Frac(3600, 1), x)

(* C34: every result of _effective_interval lies in [5, 3600] seconds, for  *)
(* every base (missing, not a number, zero, negative) and every scale, a    *)
(* zero or negative scale being replaced by a positive divisor; and of two  *)
(* calls with the same base, the one made under the larger scale does not   *)
(* return the larger interval.                                              *)
C34_IntervalClamped ==
    lastInterval.called =>
        /\ InRange(lastInterval.result)
        /\ DivisorOf(lastInterval.scale) > 0
        /\ (lastInterval.same /\ lastInterval.prevScale <= lastInterval.scale) =>
               ~Less(lastInterval.prevResult, lastInterval.result)

\* the range and the positive divisor alone
IntervalInRange ==
    lastInterval.called =>
        (InRange(lastInterval.result) /\ DivisorOf(lastInterval.scale) > 0)

\* the order of the results over the scales above zero
MonotoneAboveZero ==
    (lastInterval.called /\ lastInterval.same /\ 0 < lastInterval.prevScale
     /\ lastInterval.prevScale <= lastInterval.scale) =>
        ~Less(lastInterval.prevResult, lastInterval.result)
----------------------------------------------------------------------------
(* C35: no operation updates or deletes a row of the table conversations:   *)
(* after every step the table is its contents of before, unchanged and in   *)
(* the same order, followed by the rows the step inserted.                  *)
C35_RowsImmutable ==
    [][/\ Len(conversations') >= Len(conversations)
       /\ SubSeq(conversations', 1, Len(conversations)) = conversations]_vars

\* a snapshot was merged that carries an interaction with the timestamp and
\* message of a row already in the table but another reply, and a new one
C35_Witness ==
    /\ lastLoad.asked
    /\ Len(lastLoad.after) > Len(lastLoad.before)
    /\ \E i \in DOMAIN lastLoad.snap : \E j \in DOMAIN lastLoad.before :
          /\ lastLoad.snap[i].timestamp = lastLoad.before[j].timestamp
          /\ lastLoad.snap[i].message = lastLoad.before[j].user_message
          /\ lastLoad.snap[i].reply # lastLoad.before[j].geny_reply
----------------------------------------------------------------------------
\* the elapsed time a breakdown stands for, in minutes
ElapsedMinutes(a) == ((a.years * 365 + a.days) * 24 + a.hours) * 60 + a.minutes

----------------------------------------------------------------------------
\* task p starts an upstream attempt in this step
AttemptStarts(p) == ginvoked'[p] > ginvoked[p]

(* C37: no upstream attempt is started while the breaker is OPEN and no     *)
(* more than recovery_timeout has passed since it opened, neither the first *)
(* attempt of a call nor a retry of a call that was in progress when the    *)
(* breaker opened.                                                          *)
C37_NoAttemptWhileOpen ==
    [][\A p \in Procs :
          AttemptStarts(p) =>
              ~(circuit.state = "open" /\ now - circuit.opened_at <= RecoveryTimeout)]_vars

\* the first attempts alone: a call that starts does not make an attempt while
\* the breaker is OPEN within the recovery timeout
FirstAttemptNotWhileOpen ==
    [][\A p \in Procs :
          (AttemptStarts(p) /\ gpc[p] = "idle") =>
              ~(circuit.state = "open" /\ now - circuit.opened_at <= RecoveryTimeout)]_vars
----------------------------------------------------------------------------
\* a thread of save_memory renames its temporary file in this step
SaverReplaces == dumps' # dumps /\ Cardinality(dumps') < Cardinality(dumps)

\* save_interaction renames its temporary file in this step
InteractionReplaces == spc = "replace" /\ spc' = "recorded" /\ lastRec'.doc = "ok"

(* C38: a save never replaces memory.json by an older world state than the  *)
(* file holds: neither a save_memory thread that was scheduled before the   *)
(* one whose file is in place, nor the document save_interaction read       *)
(* before a later save and writes back after it; so once the saves have     *)
(* finished the file holds the latest world state.                          *)
C38_LatestOnDisk ==
    [][(SaverReplaces \/ InteractionReplaces) => json_file'.world >= json_file.world]_vars

\* with every save finished and nothing in progress, the file holds the world
\* state of brain.memory
QuietFileIsLatest == (Quiet /\ json_file.whole) => json_file.world = memory.world

\* the order of the saver threads alone
SaversInOrder == [][SaverReplaces => json_file'.world >= json_file.world]_vars
----------------------------------------------------------------------------
(* C39: no task holds brain._lock while it is suspended (awaiting the       *)
(* upstream gate, sleeping, or waiting for the lock): whenever the event    *)
(* loop is between two runs the lock is free. Every task that waits for the *)
(* lock acquires it, and every request, iteration and tick that began       *)
(* comes to its end: no interleaving of them deadlocks.                     *)
C39_LockNeverHeldAcrossAwait ==
    /\ [](spc = "idle" => ~lock)
    /\ \A p \in Procs : (wpc[p] = "waiting") ~> (wpc[p] = "locked")
    /\ \A p \in Procs : (wpc[p] # "idle") ~> (wpc[p] = "idle")

\* a task is inside the block while the other one awaits the upstream gate, after
\* a diary entry was written and a presence tick counted
C39_Witness ==
    \E p, q \in Procs :
        /\ wpc[p] = "locked" /\ lock
        /\ wpc[q] = "upstream"
        /\ diary # <<>> /\ presence > 0

\* the loop L is alive after this step: its flag is set and its handle holds a task
\* that is not done and was not asked to cancel
AliveAfter(L) ==
    /\ loop_state'[L].running
    /\ loop_task'[L] # 0
    /\ ~done(tasks'[L][loop_task'[L]])
    /\ ~tasks'[L][loop_task'[L]].must_cancel

\* a stop request on loop L is issued at this step
StopIssued(L) ==
    \E p \in Procs : hpc[p] = "idle" /\ hreq'[p] = [kind |-> "stop", loop |-> L]

\* C40: when a start request returns, with "started" or with "already_running", the
\* loop is alive with its running flag set, and it stays so in every step that
\* issues no stop request on it: a start that interleaves with a stop still
\* awaiting the cancelled task does not answer for a loop that ends up stopped
C40_StartedMeansAlive ==
    [][\A L \in Loops :
          /\ (\E p \in Procs : StartEnds(p) /\ hreq[p].loop = L) => AliveAfter(L)
          /\ (loop_state[L].running /\ Alive(L) /\ ~tasks[L][loop_task[L]].must_cancel
                /\ ~StopIssued(L))
               => AliveAfter(L)
      ]_vars

\* the same for the requests answered "started", and the stability alone
StartedIsAlive ==
    [][\A L \in Loops :
          /\ (\E p \in Procs : StartEnds(p) /\ hreq[p].loop = L /\ hresp'[p] = "started")
               => AliveAfter(L)
          /\ (loop_state[L].running /\ Alive(L) /\ ~tasks[L][loop_task[L]].must_cancel
                /\ ~StopIssued(L))
               => AliveAfter(L)
      ]_vars

====
